---- MODULE Spec2Model ----
(***************************************************************************)
(* A model of the wove tiered executor (src/wove/context.py): the          *)
(* WoveContextManager life cycle __init__ -> __aenter__ -> do()* ->        *)
(* __aexit__, the graph builder _build_graph_and_plan, the retry wrapper   *)
(* _retry_timeout_wrapper, the sync/async bridge (src/wove/helpers.py) and *)
(* the result store (src/wove/result.py).                                  *)
(*                                                                         *)
(* asyncio is modelled as what it is: one scheduler thread that runs the   *)
(* code between two awaits atomically, and a ThreadPoolExecutor whose      *)
(* worker threads run blocking bodies concurrently with it.                *)
(***************************************************************************)
EXTENDS Naturals, Sequences, FiniteSets, TLC

(***************************************************************************)
(* Bounds of the model.                                                    *)
(***************************************************************************)
MaxTasks == 3        \* names that do() may register
MaxSeeds == 1        \* seed values given to __init__
MaxManySeeds == 2    \* seed values given to __init__ in the runs about seeds
MaxSeedTasks == 2    \* tasks registered in the runs about seeds
MaxNestTasks == 2    \* tasks registered in the runs with a nested scope
MaxTimedTasks == 2   \* tasks registered in the runs with timeouts
MaxMapTasks == 2     \* tasks registered in the runs with mapped tasks
MaxParams == 2       \* formal parameters of a registered function
MaxRetries == 1      \* largest retries= given to do()
MaxWorkers == 1      \* largest explicit max_workers= (None is always offered)
MaxRetryTasks == 2   \* names that do() may register when it is given retries=

NamePool == <<"a", "b", "c", "d", "e">>
SeedPool == <<"s1", "s2", "s3">>
TaskNames == {NamePool[i] : i \in 1..MaxTasks}
SeedNames == {SeedPool[i] : i \in 1..MaxSeeds}
\* Every name a formal parameter can have. A seed name that was not passed to
\* __init__ is a parameter that names nothing.
ParamNames == TaskNames \cup SeedNames
ManySeedNames == {SeedPool[i] : i \in 1..MaxManySeeds}
AllNames == TaskNames \cup SeedNames \cup ManySeedNames
SeedValuePool == <<"v1", "v2", "v3">>

None == "<None>"            \* Python's None
Literal == "<iterable>"     \* a map source that is a concrete collection
Timed == "<seconds>"        \* a timeout that is not None

Range(s) == {s[i] : i \in DOMAIN s}

VARIABLES
    pc,                 \* where the life cycle / __aexit__ stands
    _max_workers,       \* self._max_workers: <<n>>, or <<>> for None (the pool's default size)
    initial_values,     \* the **initial_values of __init__: seed name -> value
    result_exception,   \* self.result.exception, NoExc while the object has no such attribute
    executor_context,   \* the context variable executor_context: whose pool it holds
    inner_executor,     \* the pool of a scope opened inside this one
    _executor,          \* self._executor: "none" | "active" | "shutdown"
    _tasks,             \* self._tasks: OrderedDict, as the sequence of its items
    _results,           \* self.result._results: name -> value, Absent when the key is missing
    writes,             \* times each key of self.result._results was assigned
    _definition_order,  \* self.result._definition_order
    execution_plan,     \* self.execution_plan, NoPlan before the build
    seed_value,         \* the loop variable `value` the seed lambdas close over
    tier_index,         \* index of the tier __aexit__ is waiting on
    is_coro,            \* inspect.iscoroutinefunction(task_func), read at launch
    args,               \* the args dict each task was created with (line 250)
    submitted_to,       \* the pool run_in_executor handed each blocking task to
    orphans,            \* worker threads still in a body whose attempt timed out
    fut,                \* asyncio task of each name
    body,               \* where the task's body stands
    attempt,            \* loop variable of _retry_timeout_wrapper
    last_exception,     \* last_exception of _retry_timeout_wrapper
    exc,                \* exception held by a failed asyncio task
    work_queue,         \* the pool's FIFO work queue
    raised,             \* the exception that leaves __aexit__
    outcome,            \* terminal state of the scope
    shutdowns,          \* calls of self._executor.shutdown
    invoked,            \* times each task body was entered
    fail_order,         \* names in the order their asyncio tasks failed
    \* src/wove.py: the module-level `weave` object and the scopes that use it
    weave_tasks,             \* weave._tasks: OrderedDict, as the sequence of its items
    weave_result_container,  \* weave._result_container: the WoveResult it points to, 0 for None
    containers,              \* the WoveResult objects __aenter__ created, by number
    scope,                   \* where each `async with weave() as result` block stands
    as_result,               \* the WoveResult each block received from __aenter__
    scope_outcome,           \* how each block's __aexit__ ended
    stream_raised,           \* the exception that left each block's __aexit__
    running_scope,           \* the block whose __aexit__ is running, 0 for none
    in_degree,               \* local in_degree of the running __aexit__
    running_tasks,           \* local running_tasks: the state of each asyncio task in it
    final_results,           \* local final_results._results
    registered_in,           \* <<block, name>>: the block whose body called do() for name
    executed_by,             \* <<block, name>>: the block whose __aexit__ launched name
    \* merge (Dynamic Merge/Dispatch)
    merge_context,      \* the context variable merge_context: the active run, None outside
    _call_stack,        \* self._call_stack: one entry per merge call in progress
    frames,             \* the merge calls in progress, innermost last
    last_merge,         \* how the latest merge call ended (or that it is in progress)
    \* result.py: the completion event of a WoveResult and the coroutines waiting on it
    _is_complete,       \* self._is_complete: the flag of the asyncio.Event
    _waiters,           \* the event's waiters: the consumers whose wait() has suspended
    consumer,           \* where each consumer stands in _wait_for_key
    wait_key,           \* the key each consumer's _wait_for_key was called with
    loop_running,       \* the consumer the event loop is running, 0 between coroutine steps
    announced,          \* keys stored before the latest _mark_complete calls
    last_do             \* the latest do() call of the scope: its function and whether the name was known

streamVars == <<weave_tasks, weave_result_container, containers, scope, as_result,
                scope_outcome, stream_raised, running_scope, in_degree, running_tasks,
                final_results, registered_in, executed_by>>

mergeVars == <<merge_context, _call_stack, frames, last_merge>>

waitVars == <<_is_complete, _waiters, consumer, wait_key, loop_running, announced>>

vars == <<pc, _max_workers, initial_values, result_exception, streamVars, mergeVars, waitVars, last_do, executor_context, inner_executor, _executor, _tasks, _results, writes, _definition_order,
          execution_plan, seed_value, tier_index, is_coro, args, submitted_to, orphans, fut, body, attempt,
          last_exception, exc, work_queue, raised, outcome, shutdowns,
          invoked, fail_order>>

(***************************************************************************)
(* Task descriptors (the dict stored in self._tasks[name]).                *)
(***************************************************************************)
\* The entry __init__ stores for a seed: {"func": lambda: value, "map_source": None}.
SeedInfo(n) ==
    [name |-> n, params |-> {}, map_source |-> None, retries |-> 0, timeout |-> None,
     seed |-> TRUE]

TaskIndex(ts, n) == CHOOSE i \in DOMAIN ts : ts[i].name = n
TaskKeys(ts) == {ts[i].name : i \in DOMAIN ts}
TaskOf(ts, n) == ts[TaskIndex(ts, n)]

\* OrderedDict.__setitem__: a new key goes last, an old key keeps its place.
SetItem(ts, info) ==
    IF info.name \in TaskKeys(ts)
    THEN [ts EXCEPT ![TaskIndex(ts, info.name)] = info]
    ELSE Append(ts, info)

Absent == <<>>
ResultKeys(res) == {n \in DOMAIN res : res[n] # Absent}

\* Values: what a seed was given, and what the body of task n returns.
SeedValue(v) == <<"seed", v>>
ReturnOf(n) == <<"result of", n>>

\* Exceptions are told apart by where they were raised.
Exc(kind, task, att) == [kind |-> kind, task |-> task, attempt |-> att]
NoExc == Exc(None, None, 0)
NoPlan == [error |-> "unbuilt"]

(***************************************************************************)
(* _build_graph_and_plan.  `rank` is the iteration order of Python's sets  *)
(* of names, which the hash seed of the process decides: the build action  *)
(* draws it.                                                               *)
(***************************************************************************)
\* is_seed of line 133. No function of this model carries _wove_task_info
\* (class-based Weave templates are not modelled).
IsSeedEntry(info, res, dord) ==
    /\ info.name \in ResultKeys(res)
    /\ info.name \notin Range(dord)

\* The dependency set the first loop computes for one task (lines 133-153).
TaskDependencies(info, all, res, dord) ==
    IF IsSeedEntry(info, res, dord) THEN {}
    ELSE (info.params \cap all)
         \cup (IF info.map_source \notin {None, Literal} THEN {info.map_source} ELSE {})

\* A faulty check that accepts a mapped task with several parameters that are
\* not dependencies.
TaskBuildErrorLenient(info, all, res, dord) ==
    IF IsSeedEntry(info, res, dord) \/ info.map_source = None THEN None
    ELSE IF info.map_source # Literal /\ info.map_source \notin all THEN "NameError"
    ELSE IF Cardinality(info.params \ all) = 0 THEN "TypeError"
    ELSE None

\* The error the first loop raises at one task, None when it raises nothing.
TaskBuildError(info, all, res, dord) ==
    IF IsSeedEntry(info, res, dord) \/ info.map_source = None THEN None
    ELSE IF info.map_source # Literal /\ info.map_source \notin all THEN "NameError"
    ELSE IF Cardinality(info.params \ all) # 1 THEN "TypeError"
    ELSE None

\* The first loop stops at the first task, in self._tasks order, that raises.
FirstLoopError(ts, res, dord) ==
    LET all == TaskKeys(ts)
        bad == {i \in DOMAIN ts : TaskBuildError(ts[i], all, res, dord) # None}
    IN  IF bad = {} THEN None
        ELSE TaskBuildError(ts[CHOOSE i \in bad : \A j \in bad : i <= j], all, res, dord)

Dependencies(ts, res, dord) ==
    [n \in TaskKeys(ts) |-> TaskDependencies(TaskOf(ts, n), TaskKeys(ts), res, dord)]

Dependents(deps) ==
    [n \in DOMAIN deps |-> {m \in DOMAIN deps : n \in deps[m]}]

InDegree(deps) == [n \in DOMAIN deps |-> Cardinality(deps[n])]

\* deque([name for name, degree in in_degree.items() if degree == 0])
ZeroQueue(ts, deg) ==
    SelectSeq([i \in DOMAIN ts |-> ts[i].name], LAMBDA n : deg[n] = 0)

\* The elements of a set of names in the order Python iterates over it.
RECURSIVE IterationOrder(_, _)
IterationOrder(S, rank) ==
    IF S = {} THEN <<>>
    ELSE LET first == CHOOSE n \in S : \A m \in S : rank[n] <= rank[m]
         IN  <<first>> \o IterationOrder(S \ {first}, rank)

\* A faulty release that is off by one: it queues a dependent when one of its
\* dependencies is still to come.
RECURSIVE ReleaseOneEarly(_, _, _)
ReleaseOneEarly(ds, deg, queue) ==
    IF ds = <<>> THEN [deg |-> deg, queue |-> queue]
    ELSE LET d == Head(ds)
             deg2 == [deg EXCEPT ![d] = deg[d] - 1]
         IN  ReleaseOneEarly(Tail(ds), deg2, IF deg2[d] = 1 THEN Append(queue, d) ELSE queue)

\* for dependent in dependents[task_name]: in_degree[dependent] -= 1;
\*     if in_degree[dependent] == 0: queue.append(dependent)
RECURSIVE Release(_, _, _)
Release(ds, deg, queue) ==
    IF ds = <<>> THEN [deg |-> deg, queue |-> queue]
    ELSE LET d == Head(ds)
             deg2 == [deg EXCEPT ![d] = deg[d] - 1]
         IN  Release(Tail(ds), deg2, IF deg2[d] = 0 THEN Append(queue, d) ELSE queue)

\* The topological sort of lines 167-176.
RECURSIVE KahnSort(_, _, _, _, _)
KahnSort(queue, deg, sorted, dependents, rank) ==
    IF queue = <<>> THEN sorted
    ELSE LET t == Head(queue)
             r == Release(IterationOrder(dependents[t], rank), deg, Tail(queue))
         IN  KahnSort(r.queue, r.deg, Append(sorted, t), dependents, rank)

\* A faulty inner loop that reads the in-degrees the tier started with for
\* every member: a task released by two members of one tier is never placed.
RECURSIVE ReleaseTierStale(_, _, _, _, _)
ReleaseTierStale(tier, deg, next, dependents, rank) ==
    IF tier = <<>> THEN [deg |-> deg, queue |-> next]
    ELSE LET r == Release(IterationOrder(dependents[Head(tier)], rank), deg, next)
         IN  ReleaseTierStale(Tail(tier), deg, r.queue, dependents, rank)

\* The inner loop of lines 186-190 over one tier.
RECURSIVE ReleaseTier(_, _, _, _, _)
ReleaseTier(tier, deg, next, dependents, rank) ==
    IF tier = <<>> THEN [deg |-> deg, queue |-> next]
    ELSE LET r == Release(IterationOrder(dependents[Head(tier)], rank), deg, next)
         IN  ReleaseTier(Tail(tier), r.deg, r.queue, dependents, rank)

\* A faulty tier loop that puts the whole topological order in one tier.
BuildTiersEager(queue, deg, tiers, dependents, rank) ==
    IF queue = <<>> THEN tiers
    ELSE <<KahnSort(queue, deg, <<>>, dependents, rank)>>

\* A faulty tier loop that gives every task of the topological order a tier
\* of its own.
BuildTiersOneByOne(queue, deg, tiers, dependents, rank) ==
    LET sorted == KahnSort(queue, deg, <<>>, dependents, rank)
    IN  [i \in DOMAIN sorted |-> <<sorted[i]>>]

\* The tier loop of lines 180-191.
RECURSIVE BuildTiers(_, _, _, _, _)
BuildTiers(queue, deg, tiers, dependents, rank) ==
    IF queue = <<>> THEN tiers
    ELSE LET r == ReleaseTier(queue, deg, <<>>, dependents, rank)
         IN  BuildTiers(r.queue, r.deg, Append(tiers, queue), dependents, rank)

\* A faulty builder without the check of lines 177-178: the tasks of a cycle
\* are left out of the plan.
BuildGraphAndPlanUnchecked(ts, res, dord, rank) ==
    LET err == FirstLoopError(ts, res, dord)
        deps == Dependencies(ts, res, dord)
        dependents == Dependents(deps)
        deg == InDegree(deps)
        queue == ZeroQueue(ts, deg)
    IN  IF err # None THEN [error |-> err]
        ELSE [error |-> None,
              dependencies |-> deps,
              dependents |-> dependents,
              tiers |-> BuildTiers(queue, deg, <<>>, dependents, rank),
              sorted_tasks |-> KahnSort(queue, deg, <<>>, dependents, rank)]

\* _build_graph_and_plan: the plan, or [error |-> the exception it raises].
BuildGraphAndPlan(ts, res, dord, rank) ==
    LET err == FirstLoopError(ts, res, dord)
        deps == Dependencies(ts, res, dord)
        dependents == Dependents(deps)
        deg == InDegree(deps)
        queue == ZeroQueue(ts, deg)
        sorted == KahnSort(queue, deg, <<>>, dependents, rank)
    IN  IF err # None THEN [error |-> err]
        ELSE IF Len(sorted) # Len(ts) THEN [error |-> "RuntimeError"]
        ELSE [error |-> None,
              dependencies |-> deps,
              dependents |-> dependents,
              tiers |-> BuildTiers(queue, deg, <<>>, dependents, rank),
              sorted_tasks |-> sorted]

(***************************************************************************)
(* State read by the actions.                                              *)
(***************************************************************************)
Done == {"ok", "failed", "cancelled"}
InFlight == {"pending", "cancelling"}

Retries(n) == TaskOf(_tasks, n).retries
Timeout(n) == TaskOf(_tasks, n).timeout
IsSeedTask(n) == TaskOf(_tasks, n).seed

\* task_func(**args) binds when the keys of args are the function's parameters:
\* args holds dependencies[task_name] and nothing else (line 250).
CallBinds(plan, n) == plan.dependencies[n] = TaskOf(_tasks, n).params

\* What future.result() returns for a task that succeeded. The seed lambdas
\* all read the loop variable `value` of __init__ when they are called.
ResultValue(n) == IF IsSeedTask(n) THEN SeedValue(seed_value) ELSE ReturnOf(n)

\* A faulty pool that starts a thread for every work item, whatever max_workers.
WorkerFreeUnbounded == TRUE

\* A faulty pool that keeps one worker thread fewer than max_workers.
WorkerFreeOneShort ==
    IF _max_workers = <<>> THEN TRUE
    ELSE Cardinality({n \in AllNames : ~is_coro[n] /\ body[n] = "running"}) + 1 < _max_workers[1]

\* A worker thread of the pool is free.
WorkerFree ==
    IF _max_workers = <<>> THEN TRUE
    ELSE Cardinality({n \in AllNames : ~is_coro[n] /\ body[n] = "running"}) + orphans
            < _max_workers[1]

ParamSets == {P \in SUBSET ParamNames : Cardinality(P) <= MaxParams}
Ranks == {r \in [TaskNames -> 1..MaxTasks] : \A n, m \in TaskNames : n # m => r[n] # r[m]}

(***************************************************************************)
(* src/wove.py: `weave = WoveContextManager()` at import (lines 53-55 and  *)
(* 145); no block has been entered.                                        *)
(***************************************************************************)
MaxScopes == 2        \* `async with weave() as result` blocks
MaxStreamTasks == 2   \* names that the module-level do() may register
Scopes == 1..MaxScopes
StreamNames == {NamePool[i] : i \in 1..MaxStreamTasks}
\* Parameter names: the task names and one name that no task has.
StreamParamNames == {NamePool[i] : i \in 1..(MaxStreamTasks + 1)}
NoResults == [n \in StreamParamNames |-> Absent]

StreamInitial ==
    /\ weave_tasks = <<>>
    /\ weave_result_container = 0
    /\ containers = [c \in Scopes |-> [_results |-> NoResults, _definition_order |-> <<>>]]
    /\ scope = [s \in Scopes |-> "idle"]
    /\ as_result = [s \in Scopes |-> 0]
    /\ scope_outcome = [s \in Scopes |-> None]
    /\ stream_raised = [s \in Scopes |-> NoExc]
    /\ running_scope = 0
    /\ in_degree = [n \in StreamNames |-> 0]
    /\ running_tasks = [n \in StreamNames |-> "none"]
    /\ final_results = NoResults
    /\ registered_in = {}
    /\ executed_by = {}

(***************************************************************************)
(* merge: no run is active and no merge call is in progress (_call_stack   *)
(* is created empty at line 60 of src/wove/context.py).                    *)
(***************************************************************************)
RecursionLimit == 100   \* the fixed bound on the nesting depth of merge
MaxMergeItems == 2      \* elements of a collection given to merge
MergeItemPool == <<"x1", "x2", "x3", "x4">>
NoArgument == "<no argument>"
NoMerge == [outside |-> FALSE, mapped |-> FALSE, error |-> None, invoked |-> FALSE,
            value |-> <<>>, done_order |-> <<>>]

MergeInitial ==
    /\ merge_context = None
    /\ _call_stack = <<>>
    /\ frames = <<>>
    /\ last_merge = NoMerge

MaxConsumers == 2       \* coroutines that call _wait_for_key
MaxWaitKeys == 3        \* keys that are stored and waited for

\* WoveResult.__init__ (result.py lines 24-26): a fresh, unset event; no
\* consumer has called _wait_for_key.
Consumers == 1..MaxConsumers
WaitInitial ==
    /\ _is_complete = FALSE
    /\ _waiters = {}
    /\ consumer = [c \in Consumers |-> "idle"]
    /\ wait_key = [c \in Consumers |-> None]
    /\ loop_running = 0
    /\ announced = {}

\* No do() call yet.
NoDo == [name |-> None, params |-> {}, again |-> FALSE]

(***************************************************************************)
(* __init__ (lines 54-70).  Seeds are the first k names of SeedPool; values *)
(* are uninterpreted, so seed i draws from the first i values only.        *)
(***************************************************************************)
InitWith(seeds) ==
    \E k \in 0..seeds :
    \E vals \in [1..k -> Range(SeedValuePool)] :
    \E w \in {<<>>} \cup {<<n>> : n \in 1..MaxWorkers} :
        /\ \A i \in 1..k : \E j \in 1..i : vals[i] = SeedValuePool[j]
        /\ pc = "idle"
        /\ _max_workers = w
        /\ executor_context = "none"
        /\ inner_executor = "none"
        /\ initial_values = [n \in {SeedPool[i] : i \in 1..k} |->
                                vals[CHOOSE i \in 1..k : SeedPool[i] = n]]
        /\ result_exception = NoExc
        /\ _executor = "none"
        /\ _tasks = [i \in 1..k |-> SeedInfo(SeedPool[i])]
        /\ _results = [n \in AllNames |->
                         IF \E i \in 1..k : SeedPool[i] = n
                         THEN SeedValue(vals[CHOOSE i \in 1..k : SeedPool[i] = n])
                         ELSE Absent]
        /\ writes = [n \in AllNames |-> IF \E i \in 1..k : SeedPool[i] = n THEN 1 ELSE 0]
        /\ _definition_order = <<>>
        /\ execution_plan = NoPlan
        /\ seed_value = IF k = 0 THEN None ELSE vals[k]
        /\ tier_index = 0
        /\ is_coro = [n \in AllNames |-> FALSE]
        /\ args = [n \in AllNames |-> <<>>]
        /\ submitted_to = [n \in AllNames |-> "none"]
        /\ orphans = 0
        /\ fut = [n \in AllNames |-> "none"]
        /\ body = [n \in AllNames |-> "idle"]
        /\ attempt = [n \in AllNames |-> 0]
        /\ last_exception = [n \in AllNames |-> NoExc]
        /\ exc = [n \in AllNames |-> NoExc]
        /\ work_queue = <<>>
        /\ raised = NoExc
        /\ outcome = None
        /\ shutdowns = 0
        /\ invoked = [n \in AllNames |-> 0]
        /\ fail_order = <<>>
        /\ StreamInitial
        /\ MergeInitial
        /\ WaitInitial
        /\ last_do = NoDo

Init == InitWith(MaxSeeds)

taskVars == <<is_coro, args, submitted_to, orphans, fut, body, attempt, last_exception, exc, work_queue,
              invoked, fail_order>>

\* __aenter__ (lines 115-122)
AEnter ==
    /\ pc = "idle"
    /\ pc' = "open"
    /\ _executor' = "active"
    /\ executor_context' = "own"
    /\ UNCHANGED <<_max_workers, initial_values, result_exception, streamVars, mergeVars, waitVars, last_do, inner_executor, _tasks, _results, writes, _definition_order, execution_plan,
                   seed_value, tier_index, raised, outcome, shutdowns>>
    /\ UNCHANGED taskVars

\* A faulty decorator that appends the name to the definition order on every
\* call, known or not.
DoAppendingAlways(name, params, retries, timeout, map_source, limit) ==
    LET known == TaskKeys(_tasks) \cap TaskNames
        final_params == [name |-> name, params |-> params, map_source |-> map_source,
                         retries |-> retries, timeout |-> timeout, seed |-> FALSE]
    IN  /\ pc = "open"
        /\ \/ name \in known
           \/ Cardinality(known) < limit /\ name = NamePool[Cardinality(known) + 1]
        /\ Len(_definition_order) < limit + 1
        /\ _tasks' = SetItem(_tasks, final_params)
        /\ _definition_order' = Append(_definition_order, name)
        /\ UNCHANGED <<pc, _max_workers, initial_values, result_exception, streamVars, mergeVars, waitVars, executor_context, inner_executor, _executor, _results, writes, execution_plan,
                       seed_value, tier_index, raised, outcome, shutdowns>>
        /\ UNCHANGED taskVars

\* A faulty decorator that calls the function it registers.
DoCallingBody(name, params, retries, timeout, map_source, limit) ==
    LET known == TaskKeys(_tasks) \cap TaskNames
        old == name \in TaskKeys(_tasks)
        final_retries == IF old /\ retries = 0 THEN TaskOf(_tasks, name).retries
                         ELSE retries
        final_timeout == IF old /\ timeout = None THEN TaskOf(_tasks, name).timeout
                         ELSE timeout
        final_params == [name |-> name, params |-> params, map_source |-> map_source,
                         retries |-> final_retries, timeout |-> final_timeout,
                         seed |-> FALSE]
    IN  /\ pc = "open"
        /\ \/ name \in known
           \/ Cardinality(known) < limit /\ name = NamePool[Cardinality(known) + 1]
        /\ _tasks' = SetItem(_tasks, final_params)
        /\ _definition_order' =
              IF name \in Range(_definition_order) THEN _definition_order
              ELSE Append(_definition_order, name)
        /\ UNCHANGED <<pc, _max_workers, initial_values, result_exception, streamVars, mergeVars, waitVars, executor_context, inner_executor, _executor, _results, writes, execution_plan,
                       seed_value, tier_index, raised, outcome, shutdowns>>
        /\ invoked' = [invoked EXCEPT ![name] = 1]
        /\ UNCHANGED <<is_coro, args, submitted_to, orphans, fut, body, attempt, last_exception, exc,
                       work_queue, fail_order>>

\* do(...)(func) (lines 304-346): func is named `name` and has the formal
\* parameters `params`. New names are taken from NamePool in order.
Do(name, params, retries, timeout, map_source, limit) ==
    LET known == TaskKeys(_tasks) \cap TaskNames
        old == name \in TaskKeys(_tasks)
        final_retries == IF old /\ retries = 0 THEN TaskOf(_tasks, name).retries
                         ELSE retries
        final_timeout == IF old /\ timeout = None THEN TaskOf(_tasks, name).timeout
                         ELSE timeout
        final_params == [name |-> name, params |-> params, map_source |-> map_source,
                         retries |-> final_retries, timeout |-> final_timeout,
                         seed |-> FALSE]
    IN  /\ pc = "open"
        /\ \/ name \in known
           \/ Cardinality(known) < limit /\ name = NamePool[Cardinality(known) + 1]
        /\ _tasks' = SetItem(_tasks, final_params)
        /\ _definition_order' =
              IF name \in Range(_definition_order) THEN _definition_order
              ELSE Append(_definition_order, name)
        /\ UNCHANGED <<pc, _max_workers, initial_values, result_exception, streamVars, mergeVars, waitVars, executor_context, inner_executor, _executor, _results, writes, execution_plan,
                       seed_value, tier_index, raised, outcome, shutdowns>>
        /\ UNCHANGED taskVars

(***************************************************************************)
(* __aexit__ (lines 222-289), cut at its awaits.                           *)
(***************************************************************************)
\* A faulty launch loop that creates the asyncio task of the first member of
\* the tier only, and waits for it before it creates the next.
LaunchTierFirstOnly(plan, whole, all_coros) ==
    LET tier == <<whole[1]>>
        members == Range(tier)
        coros == all_coros \cap members
        call_fails == {n \in coros : ~CallBinds(plan, n)}
        submit_fails == IF executor_context = "own" THEN {} ELSE members \ coros
        fails == call_fails \cup submit_fails
    IN  /\ submitted_to' = [n \in AllNames |->
                              IF n \in members \ coros THEN executor_context
                              ELSE submitted_to[n]]
        /\ is_coro' = [n \in AllNames |-> IF n \in members THEN n \in coros ELSE is_coro[n]]
        /\ args' = [n \in AllNames |->
                      IF n \in members
                      THEN [p \in plan.dependencies[n] |-> _results[p]]
                      ELSE args[n]]
        /\ fut' = [n \in AllNames |->
                     IF n \in fails THEN "failed"
                     ELSE IF n \in members THEN "pending" ELSE fut[n]]
        /\ body' = [n \in AllNames |->
                     IF n \in fails THEN "idle"
                     ELSE IF n \in coros THEN "running"
                     ELSE IF n \in members THEN "queued" ELSE body[n]]
        /\ attempt' = [n \in AllNames |->
                     IF n \in submit_fails THEN Retries(n)
                     ELSE IF n \in members THEN 0 ELSE attempt[n]]
        /\ exc' = [n \in AllNames |->
                     IF n \in call_fails THEN Exc("call", n, 0)
                     ELSE IF n \in submit_fails THEN Exc("submit", n, Retries(n))
                     ELSE exc[n]]
        /\ last_exception' = [n \in AllNames |->
                     IF n \in submit_fails THEN Exc("submit", n, Retries(n))
                     ELSE last_exception[n]]
        /\ work_queue' = work_queue \o SelectSeq(tier, LAMBDA n : n \notin coros \cup fails)
        /\ invoked' = [n \in AllNames |->
                     IF n \in coros \ call_fails THEN invoked[n] + 1 ELSE invoked[n]]
        /\ fail_order' = fail_order \o SelectSeq(tier, LAMBDA n : n \in fails)
        /\ UNCHANGED orphans

\* Lines 247-258 for one tier, and the first step of each task created: a
\* coroutine function is called and runs to its first await; a plain function
\* is handed by sync_to_async to the pool that executor_context holds, and
\* submit() raises RuntimeError on every attempt when that pool was shut down.
LaunchTier(plan, tier, coros) ==
    LET members == Range(tier)
        call_fails == {n \in coros : ~CallBinds(plan, n)}
        submit_fails == IF executor_context = "own" THEN {} ELSE members \ coros
        fails == call_fails \cup submit_fails
    IN  /\ submitted_to' = [n \in AllNames |->
                              IF n \in members \ coros THEN executor_context
                              ELSE submitted_to[n]]
        /\ is_coro' = [n \in AllNames |-> IF n \in members THEN n \in coros ELSE is_coro[n]]
        /\ args' = [n \in AllNames |->
                      IF n \in members
                      THEN [p \in plan.dependencies[n] |-> _results[p]]
                      ELSE args[n]]
        /\ fut' = [n \in AllNames |->
                     IF n \in fails THEN "failed"
                     ELSE IF n \in members THEN "pending" ELSE fut[n]]
        /\ body' = [n \in AllNames |->
                     IF n \in fails THEN "idle"
                     ELSE IF n \in coros THEN "running"
                     ELSE IF n \in members THEN "queued" ELSE body[n]]
        /\ attempt' = [n \in AllNames |->
                     IF n \in submit_fails THEN Retries(n)
                     ELSE IF n \in members THEN 0 ELSE attempt[n]]
        /\ exc' = [n \in AllNames |->
                     IF n \in call_fails THEN Exc("call", n, 0)
                     ELSE IF n \in submit_fails THEN Exc("submit", n, Retries(n))
                     ELSE exc[n]]
        /\ last_exception' = [n \in AllNames |->
                     IF n \in submit_fails THEN Exc("submit", n, Retries(n))
                     ELSE last_exception[n]]
        /\ work_queue' = work_queue \o SelectSeq(tier, LAMBDA n : n \notin coros \cup fails)
        /\ invoked' = [n \in AllNames |->
                     IF n \in coros \ call_fails THEN invoked[n] + 1 ELSE invoked[n]]
        /\ fail_order' = fail_order \o SelectSeq(tier, LAMBDA n : n \in fails)
        /\ UNCHANGED orphans

\* The finally clause (lines 287-289) on the way out.
Finally(how) ==
    /\ pc' = "shutdown_wait"
    /\ outcome' = how
    /\ _executor' = "shutdown"
    /\ shutdowns' = shutdowns + 1

\* The for loop of line 245 from tier idx + 1 on, up to its next await.
RunTiersFrom(plan, idx) ==
    IF idx < Len(plan.tiers)
    THEN /\ \E coros \in SUBSET {n \in Range(plan.tiers[idx + 1]) : ~IsSeedTask(n)} :
                LaunchTier(plan, plan.tiers[idx + 1], coros)
         /\ pc' = "wait_first"
         /\ tier_index' = idx + 1
         /\ UNCHANGED <<_executor, outcome, shutdowns, raised>>
    ELSE /\ Finally("Success")
         /\ UNCHANGED <<tier_index, raised>>
         /\ UNCHANGED taskVars

\* The except clause (lines 281-285) up to its await.
CancelAndGather(e) ==
    /\ raised' = e
    /\ fut' = [n \in AllNames |-> IF fut[n] = "pending" THEN "cancelling" ELSE fut[n]]
    /\ pc' = "drain"
    /\ UNCHANGED <<_executor, outcome, shutdowns, tier_index, is_coro, args, submitted_to, orphans, body, attempt,
                   last_exception, exc, work_queue, invoked, fail_order>>

\* A faulty store loop that leaves out the last future of the tier.
StoreTierDroppingLast(plan, idx) ==
    LET tier == plan.tiers[idx]
        bad == {i \in DOMAIN tier : fut[tier[i]] = "failed"}
        stop == IF bad = {} THEN Len(tier) ELSE CHOOSE i \in bad : \A j \in bad : i <= j
        stored == [n \in AllNames |->
                     IF \E i \in 1..(stop - 1) : tier[i] = n THEN ResultValue(n)
                     ELSE _results[n]]
    IN  /\ _results' = stored
        /\ writes' = [n \in AllNames |->
                        IF \E i \in 1..(stop - 1) : tier[i] = n THEN writes[n] + 1
                        ELSE writes[n]]
        /\ IF bad = {} THEN RunTiersFrom(plan, idx)
           ELSE CancelAndGather(exc[tier[stop]])

\* A faulty store loop that skips the futures that failed and goes on to the
\* next tier.
StoreTierIgnoringFailure(plan, idx) ==
    /\ _results' = [n \in AllNames |->
                       IF n \in Range(plan.tiers[idx]) /\ fut[n] = "ok"
                       THEN ResultValue(n) ELSE _results[n]]
    /\ writes' = [n \in AllNames |->
                    IF n \in Range(plan.tiers[idx]) /\ fut[n] = "ok"
                    THEN writes[n] + 1 ELSE writes[n]]
    /\ RunTiersFrom(plan, idx)

\* A faulty store loop that records an entry for every member of the tier, the
\* failed ones too, before it raises.
StoreTierStoringAll(plan, idx) ==
    LET tier == plan.tiers[idx]
        bad == {i \in DOMAIN tier : fut[tier[i]] = "failed"}
        stop == IF bad = {} THEN Len(tier) + 1 ELSE CHOOSE i \in bad : \A j \in bad : i <= j
    IN  /\ _results' = [n \in AllNames |->
                           IF n \in Range(tier) THEN ResultValue(n) ELSE _results[n]]
        /\ writes' = [n \in AllNames |->
                        IF n \in Range(tier) THEN writes[n] + 1 ELSE writes[n]]
        /\ IF bad = {} THEN RunTiersFrom(plan, idx)
           ELSE CancelAndGather(exc[tier[stop]])

\* Lines 278-279: the results of a finished tier are stored in tier order; the
\* first failed future raises from future.result().
StoreTier(plan, idx) ==
    LET tier == plan.tiers[idx]
        bad == {i \in DOMAIN tier : fut[tier[i]] = "failed"}
        stop == IF bad = {} THEN Len(tier) + 1 ELSE CHOOSE i \in bad : \A j \in bad : i <= j
        stored == [n \in AllNames |->
                     IF \E i \in 1..(stop - 1) : tier[i] = n THEN ResultValue(n)
                     ELSE _results[n]]
    IN  /\ _results' = stored
        /\ writes' = [n \in AllNames |->
                        IF \E i \in 1..(stop - 1) : tier[i] = n THEN writes[n] + 1
                        ELSE writes[n]]
        /\ IF bad = {} THEN RunTiersFrom(plan, idx)
           ELSE CancelAndGather(exc[tier[stop]])

\* A faulty __aexit__ that builds the plan before it looks at exc_type.
AExitBuildingFirst(exc_type, rank) ==
    /\ pc = "open"
    /\ inner_executor # "active"
    /\ UNCHANGED <<_max_workers, initial_values, result_exception, streamVars, mergeVars, waitVars, last_do, executor_context, inner_executor, _tasks, _definition_order, seed_value>>
    /\ LET plan == BuildGraphAndPlan(_tasks, _results, _definition_order, rank)
       IN  IF plan.error # None
           THEN /\ pc' = "closed"
                /\ outcome' = IF exc_type THEN "BodyException" ELSE "GraphError"
                /\ raised' = IF exc_type THEN raised ELSE Exc(plan.error, None, 0)
                /\ UNCHANGED <<_executor, _results, writes, execution_plan, tier_index, shutdowns>>
                /\ UNCHANGED taskVars
           ELSE IF exc_type
           THEN /\ pc' = "closed"
                /\ outcome' = "BodyException"
                /\ execution_plan' = plan
                /\ UNCHANGED <<_executor, _results, writes, tier_index, raised, shutdowns>>
                /\ UNCHANGED taskVars
           ELSE /\ execution_plan' = plan
                /\ RunTiersFrom(plan, 0)
                /\ UNCHANGED <<_results, writes>>

AExit(exc_type, rank) ==
    /\ pc = "open"
    /\ inner_executor # "active"
    /\ UNCHANGED <<_max_workers, initial_values, result_exception, streamVars, mergeVars, waitVars, last_do, executor_context, inner_executor, _tasks, _definition_order, seed_value>>
    /\ IF exc_type
       THEN /\ pc' = "closed"
            /\ outcome' = "BodyException"
            /\ UNCHANGED <<_executor, _results, writes, execution_plan, tier_index, raised, shutdowns>>
            /\ UNCHANGED taskVars
       ELSE LET plan == BuildGraphAndPlan(_tasks, _results, _definition_order, rank)
            IN  IF plan.error # None
                THEN /\ pc' = "closed"
                     /\ outcome' = "GraphError"
                     /\ raised' = Exc(plan.error, None, 0)
                     /\ UNCHANGED <<_executor, _results, writes, execution_plan, tier_index, shutdowns>>
                     /\ UNCHANGED taskVars
                ELSE /\ execution_plan' = plan
                     /\ RunTiersFrom(plan, 0)
                     /\ UNCHANGED <<_results, writes>>

\* asyncio.wait(..., FIRST_COMPLETED) returns (line 263): every task of the
\* tier has taken its first step by then, and some are done.
WaitFirstReturns ==
    LET tier == execution_plan.tiers[tier_index]
        done == {n \in Range(tier) : fut[n] \in Done}
        failed == {n \in done : fut[n] = "failed"}
    IN  /\ pc = "wait_first"
        /\ done # {}
        /\ UNCHANGED <<_max_workers, initial_values, result_exception, streamVars, mergeVars, waitVars, last_do, executor_context, inner_executor, _tasks, _definition_order, seed_value, execution_plan>>
        /\ IF failed # {}
           THEN /\ \E n \in failed : CancelAndGather(exc[n])
                /\ UNCHANGED <<_results, writes>>
           ELSE IF done # Range(tier)
           THEN /\ pc' = "wait_rest"
                /\ UNCHANGED <<_executor, _results, writes, tier_index, raised, outcome, shutdowns>>
                /\ UNCHANGED taskVars
           ELSE StoreTier(execution_plan, tier_index)

\* asyncio.wait(pending, ALL_COMPLETED) returns (line 275).
WaitRestReturns ==
    /\ pc = "wait_rest"
    /\ \A n \in Range(execution_plan.tiers[tier_index]) : fut[n] \in Done
    /\ StoreTier(execution_plan, tier_index)
    /\ UNCHANGED <<_max_workers, initial_values, result_exception, streamVars, mergeVars, waitVars, last_do, executor_context, inner_executor, _tasks, _definition_order, seed_value, execution_plan>>

\* A faulty except clause that re-raises without awaiting the gather.
GatherSkipped ==
    /\ pc = "drain"
    /\ Finally("TaskError")
    /\ UNCHANGED <<_max_workers, initial_values, result_exception, streamVars, mergeVars, waitVars, last_do, executor_context, inner_executor, _tasks, _results, writes, _definition_order, execution_plan,
                   seed_value, tier_index, raised>>
    /\ UNCHANGED taskVars

\* asyncio.gather(*all_created_tasks, return_exceptions=True) returns (line
\* 285); `raise` then runs the finally clause.
GatherReturns ==
    /\ pc = "drain"
    /\ \A n \in AllNames : fut[n] \notin InFlight
    /\ Finally("TaskError")
    /\ UNCHANGED <<_max_workers, initial_values, result_exception, streamVars, mergeVars, waitVars, last_do, executor_context, inner_executor, _tasks, _results, writes, _definition_order, execution_plan,
                   seed_value, tier_index, raised>>
    /\ UNCHANGED taskVars

\* self._executor.shutdown(wait=True) returns: the worker threads are joined.
ShutdownReturns ==
    /\ pc = "shutdown_wait"
    /\ work_queue = <<>>
    /\ \A n \in AllNames : is_coro[n] \/ body[n] # "running"
    /\ orphans = 0
    /\ pc' = "closed"
    /\ UNCHANGED <<_max_workers, initial_values, result_exception, streamVars, mergeVars, waitVars, last_do, executor_context, inner_executor, _executor, _tasks, _results, writes, _definition_order,
                   execution_plan, seed_value, tier_index, raised, outcome, shutdowns>>
    /\ UNCHANGED taskVars

(***************************************************************************)
(* The tasks: _retry_timeout_wrapper (lines 204-220) around the body, and  *)
(* run_in_executor of sync_to_async (src/wove/helpers.py lines 27-35).     *)
(***************************************************************************)
execVars == <<pc, _max_workers, initial_values, result_exception, streamVars, mergeVars, waitVars, last_do, executor_context, inner_executor, _executor, _tasks, _results, writes, _definition_order,
              execution_plan, seed_value, tier_index, raised, outcome, shutdowns>>

\* A worker thread takes the oldest work item and calls func(**kwargs).
BodyStart(n) ==
    /\ work_queue # <<>>
    /\ n = Head(work_queue)
    /\ WorkerFree
    /\ work_queue' = Tail(work_queue)
    /\ body' = [body EXCEPT ![n] = "running"]
    /\ invoked' = [invoked EXCEPT ![n] =
                      IF CallBinds(execution_plan, n) THEN invoked[n] + 1 ELSE invoked[n]]
    /\ UNCHANGED <<is_coro, args, submitted_to, orphans, fut, attempt, last_exception, exc, fail_order>>
    /\ UNCHANGED execVars

\* A faulty wrapper whose loop runs once more than retries + 1 times.
AttemptFailedOnceMore(n, e) ==
    /\ last_exception' = [last_exception EXCEPT ![n] = e]
    /\ IF attempt[n] <= Retries(n)
       THEN /\ attempt' = [attempt EXCEPT ![n] = attempt[n] + 1]
            /\ IF is_coro[n]
               THEN /\ invoked' = [invoked EXCEPT ![n] = invoked[n] + 1]
                    /\ UNCHANGED <<body, work_queue>>
               ELSE /\ body' = [body EXCEPT ![n] = "queued"]
                    /\ work_queue' = Append(work_queue, n)
                    /\ UNCHANGED invoked
            /\ UNCHANGED <<fut, exc, fail_order>>
       ELSE /\ fut' = [fut EXCEPT ![n] = "failed"]
            /\ exc' = [exc EXCEPT ![n] = last_exception'[n]]
            /\ body' = [body EXCEPT ![n] = "idle"]
            /\ fail_order' = Append(fail_order, n)
            /\ UNCHANGED <<attempt, work_queue, invoked>>

\* A faulty wrapper that keeps the exception of the first attempt.
AttemptFailedKeepingFirst(n, e) ==
    /\ last_exception' = [last_exception EXCEPT ![n] =
                             IF attempt[n] = 0 THEN e ELSE last_exception[n]]
    /\ IF attempt[n] < Retries(n)
       THEN /\ attempt' = [attempt EXCEPT ![n] = attempt[n] + 1]
            /\ IF is_coro[n]
               THEN /\ invoked' = [invoked EXCEPT ![n] = invoked[n] + 1]
                    /\ UNCHANGED <<body, work_queue>>
               ELSE /\ body' = [body EXCEPT ![n] = "queued"]
                    /\ work_queue' = Append(work_queue, n)
                    /\ UNCHANGED invoked
            /\ UNCHANGED <<fut, exc, fail_order>>
       ELSE /\ fut' = [fut EXCEPT ![n] = "failed"]
            /\ exc' = [exc EXCEPT ![n] = last_exception'[n]]
            /\ body' = [body EXCEPT ![n] = "idle"]
            /\ fail_order' = Append(fail_order, n)
            /\ UNCHANGED <<attempt, work_queue, invoked>>

\* `except (Exception, asyncio.TimeoutError) as e` of one attempt (lines
\* 218-220): the next attempt calls task_func(**args) again, the last one
\* re-raises.
AttemptFailed(n, e) ==
    /\ last_exception' = [last_exception EXCEPT ![n] = e]
    /\ IF attempt[n] < Retries(n)
       THEN /\ attempt' = [attempt EXCEPT ![n] = attempt[n] + 1]
            /\ IF is_coro[n]
               THEN /\ invoked' = [invoked EXCEPT ![n] = invoked[n] + 1]
                    /\ UNCHANGED <<body, work_queue>>
               ELSE /\ body' = [body EXCEPT ![n] = "queued"]
                    /\ work_queue' = Append(work_queue, n)
                    /\ UNCHANGED invoked
            /\ UNCHANGED <<fut, exc, fail_order>>
       ELSE /\ fut' = [fut EXCEPT ![n] = "failed"]
            /\ exc' = [exc EXCEPT ![n] = last_exception'[n]]
            /\ body' = [body EXCEPT ![n] = "idle"]
            /\ fail_order' = Append(fail_order, n)
            /\ UNCHANGED <<attempt, work_queue, invoked>>

\* The body of an attempt ends: it returns (ok) or raises. A call that could
\* not bind its arguments raised TypeError instead of entering the body; a
\* seed lambda only returns. Whatever ends a body whose asyncio task was
\* cancelled meanwhile is dropped (one step stands for both ways to end).
BodyFinish(n, ok) ==
    /\ body[n] = "running"
    /\ IF is_coro[n] THEN fut[n] = "pending" /\ pc # "shutdown_wait" ELSE TRUE
    /\ IF fut[n] # "pending"
       THEN /\ ok
            /\ body' = [body EXCEPT ![n] = "idle"]
            /\ UNCHANGED <<fut, attempt, last_exception, exc, work_queue, invoked, fail_order>>
       ELSE IF ok
       THEN /\ CallBinds(execution_plan, n)
            /\ fut' = [fut EXCEPT ![n] = "ok"]
            /\ body' = [body EXCEPT ![n] = "idle"]
            /\ UNCHANGED <<attempt, last_exception, exc, work_queue, invoked, fail_order>>
       ELSE /\ ~IsSeedTask(n)
            /\ AttemptFailed(n, Exc(IF CallBinds(execution_plan, n) THEN "body" ELSE "call",
                                    n, attempt[n]))
    /\ UNCHANGED <<is_coro, args, submitted_to, orphans>>
    /\ UNCHANGED execVars

\* A faulty wrapper whose except clause catches CancelledError too: the
\* cancelled attempt counts as a failed one and the loop goes on.
CancelAckCaught(n) ==
    /\ pc = "drain"
    /\ fut[n] = "cancelling"
    /\ AttemptFailed(n, Exc("cancelled", n, attempt[n]))
    /\ UNCHANGED <<is_coro, args, submitted_to, orphans>>
    /\ UNCHANGED execVars

\* A task that task.cancel() reached (line 284) takes its next step:
\* CancelledError is no Exception, so the wrapper lets it through. A work item
\* that no thread has taken is dropped; a running thread cannot be stopped.
CancelAck(n) ==
    /\ pc = "drain"
    /\ fut[n] = "cancelling"
    /\ fut' = [fut EXCEPT ![n] = "cancelled"]
    /\ body' = [body EXCEPT ![n] =
                   IF is_coro[n] \/ body[n] = "queued" THEN "idle" ELSE body[n]]
    /\ work_queue' = SelectSeq(work_queue, LAMBDA m : m # n)
    /\ UNCHANGED <<is_coro, args, submitted_to, orphans, attempt, last_exception, exc, invoked, fail_order>>
    /\ UNCHANGED execVars

\* A faulty wrapper whose except clause does not catch TimeoutError: the first
\* timeout fails the task.
TimedOutUncaught(n) ==
    LET e == Exc("timeout", n, attempt[n])
    IN  /\ fut[n] = "pending"
        /\ Timeout(n) # None
        /\ body[n] \in {"queued", "running"}
        /\ last_exception' = [last_exception EXCEPT ![n] = e]
        /\ orphans' = IF ~is_coro[n] /\ body[n] = "running" THEN orphans + 1 ELSE orphans
        /\ fut' = [fut EXCEPT ![n] = "failed"]
        /\ exc' = [exc EXCEPT ![n] = e]
        /\ body' = [body EXCEPT ![n] = "idle"]
        /\ work_queue' = SelectSeq(work_queue, LAMBDA m : m # n)
        /\ fail_order' = Append(fail_order, n)
        /\ UNCHANGED <<attempt, invoked>>
        /\ UNCHANGED <<is_coro, args, submitted_to>>
        /\ UNCHANGED execVars

\* asyncio.wait_for(coro, timeout) of line 215 gives up on an attempt: it
\* cancels what it awaits (a coroutine stops at its await, a queued work item is
\* dropped, a thread already in the body runs on with nobody waiting for it)
\* and raises TimeoutError, which the except clause of line 218 catches.
TimedOut(n) ==
    LET e == Exc("timeout", n, attempt[n])
        rest == SelectSeq(work_queue, LAMBDA m : m # n)
    IN  /\ fut[n] = "pending"
        /\ Timeout(n) # None
        /\ body[n] \in {"queued", "running"}
        /\ last_exception' = [last_exception EXCEPT ![n] = e]
        /\ orphans' = IF ~is_coro[n] /\ body[n] = "running" THEN orphans + 1 ELSE orphans
        /\ IF attempt[n] < Retries(n)
           THEN /\ attempt' = [attempt EXCEPT ![n] = attempt[n] + 1]
                /\ IF is_coro[n]
                   THEN /\ invoked' = [invoked EXCEPT ![n] = invoked[n] + 1]
                        /\ UNCHANGED <<body, work_queue>>
                   ELSE /\ body' = [body EXCEPT ![n] = "queued"]
                        /\ work_queue' = Append(rest, n)
                        /\ UNCHANGED invoked
                /\ UNCHANGED <<fut, exc, fail_order>>
           ELSE /\ fut' = [fut EXCEPT ![n] = "failed"]
                /\ exc' = [exc EXCEPT ![n] = e]
                /\ body' = [body EXCEPT ![n] = "idle"]
                /\ work_queue' = rest
                /\ fail_order' = Append(fail_order, n)
                /\ UNCHANGED <<attempt, invoked>>
        /\ UNCHANGED <<is_coro, args, submitted_to>>
        /\ UNCHANGED execVars

\* A thread whose attempt had timed out leaves the body.
OrphanFinish ==
    /\ orphans > 0
    /\ orphans' = orphans - 1
    /\ UNCHANGED <<is_coro, args, submitted_to, fut, body, attempt, last_exception, exc,
                   work_queue, invoked, fail_order>>
    /\ UNCHANGED execVars

(***************************************************************************)
(* Specifications.                                                         *)
(***************************************************************************)
\* @w.do on a plain function, with the default retries.
Register ==
    \E name \in TaskNames, params \in ParamSets :
        Do(name, params, 0, None, None, MaxTasks) /\ UNCHANGED last_do

\* The same, keeping what the call was given.
RegisterRecorded ==
    \E name \in TaskNames, params \in ParamSets :
        /\ Do(name, params, 0, None, None, MaxTasks)
        /\ last_do' = [name |-> name, params |-> params, again |-> name \in TaskKeys(_tasks)]

LeaveScope == \E exc_type \in BOOLEAN, rank \in Ranks : AExit(exc_type, rank)

TaskStep ==
    \E n \in AllNames :
        \/ BodyStart(n)
        \/ \E ok \in BOOLEAN : BodyFinish(n, ok)
        \/ CancelAck(n)

Next ==
    \/ AEnter
    \/ Register
    \/ LeaveScope
    \/ WaitFirstReturns
    \/ WaitRestReturns
    \/ GatherReturns
    \/ ShutdownReturns
    \/ TaskStep

Spec == Init /\ [][Next]_vars

(***************************************************************************)
(* The coroutine running __aexit__ is cancelled from outside while it      *)
(* awaits asyncio.wait (line 262 or 274).  asyncio.wait leaves the tasks   *)
(* it was given alone when it is cancelled; CancelledError is no           *)
(* Exception, so the except clause of line 281 does not run and the        *)
(* finally clause (lines 287-289) does.                                    *)
(***************************************************************************)
ExternalCancel ==
    /\ pc \in {"wait_first", "wait_rest"}
    /\ raised' = Exc("CancelledError", None, 0)
    /\ Finally("Cancelled")
    /\ UNCHANGED <<_max_workers, initial_values, result_exception, streamVars, mergeVars, waitVars, last_do, executor_context, inner_executor, _tasks, _results, writes, _definition_order, execution_plan,
                   seed_value, tier_index>>
    /\ UNCHANGED taskVars

NextRegistration ==
    \/ AEnter
    \/ RegisterRecorded

RegistrationSpec == Init /\ [][NextRegistration]_vars

NextCancel ==
    \/ Next
    \/ ExternalCancel

CancelSpec == Init /\ [][NextCancel]_vars

\* @w.do(retries=...) on a plain function.
RegisterWithRetries ==
    \E name \in TaskNames, params \in ParamSets, retries \in 0..MaxRetries :
        Do(name, params, retries, None, None, MaxRetryTasks) /\ UNCHANGED last_do

NextRetry ==
    \/ AEnter
    \/ RegisterWithRetries
    \/ LeaveScope
    \/ WaitFirstReturns
    \/ WaitRestReturns
    \/ GatherReturns
    \/ ShutdownReturns
    \/ TaskStep

RetrySpec == Init /\ [][NextRetry]_vars

\* weave(**initial_values) with several seeds, and @w.do on functions whose
\* parameters may be named after any of them.
SeedInit == InitWith(MaxManySeeds)

SeededParamSets ==
    {P \in SUBSET (TaskNames \cup ManySeedNames) : Cardinality(P) <= MaxParams}

RegisterSeeded ==
    \E name \in TaskNames, params \in SeededParamSets :
        Do(name, params, 0, None, None, MaxSeedTasks) /\ UNCHANGED last_do

NextSeeded ==
    \/ AEnter
    \/ RegisterSeeded
    \/ LeaveScope
    \/ WaitFirstReturns
    \/ WaitRestReturns
    \/ GatherReturns
    \/ ShutdownReturns
    \/ TaskStep

SeedSpec == SeedInit /\ [][NextSeeded]_vars

\* `async with weave() as inner:` entered in the body of this scope, after
\* this scope's own __aenter__: the inner __aenter__ (lines 120-121) creates
\* its pool and sets executor_context in the same asyncio context.
InnerEnter ==
    /\ pc = "open"
    /\ inner_executor = "none"
    /\ inner_executor' = "active"
    /\ executor_context' = "inner"
    /\ UNCHANGED <<pc, _max_workers, initial_values, result_exception, streamVars, mergeVars, waitVars, last_do, _executor, _tasks, _results, writes,
                   _definition_order, execution_plan, seed_value, tier_index, raised,
                   outcome, shutdowns>>
    /\ UNCHANGED taskVars

\* The inner scope is left: its __aexit__ shuts its pool down (lines 287-289)
\* and leaves executor_context as it is (the token of line 121 is never used).
InnerExit ==
    /\ pc = "open"
    /\ inner_executor = "active"
    /\ inner_executor' = "shutdown"
    /\ UNCHANGED <<pc, _max_workers, initial_values, result_exception, streamVars, mergeVars, waitVars, last_do, executor_context, _executor, _tasks,
                   _results, writes, _definition_order, execution_plan, seed_value,
                   tier_index, raised, outcome, shutdowns>>
    /\ UNCHANGED taskVars

\* A scope with another scope opened and closed inside it.
RegisterNested ==
    \E name \in TaskNames, params \in ParamSets :
        Do(name, params, 0, None, None, MaxNestTasks) /\ UNCHANGED last_do

NextNested ==
    \/ AEnter
    \/ InnerEnter
    \/ InnerExit
    \/ RegisterNested
    \/ LeaveScope
    \/ WaitFirstReturns
    \/ WaitRestReturns
    \/ GatherReturns
    \/ ShutdownReturns
    \/ TaskStep

NestSpec == Init /\ [][NextNested]_vars

\* The steps that need no caller: the event loop resumes __aexit__ when what it
\* awaits is ready, the worker threads take work, and every body ends.
Progress ==
    \/ WaitFirstReturns
    \/ WaitRestReturns
    \/ GatherReturns
    \/ ShutdownReturns
    \/ TaskStep

LiveSpec == Init /\ [][Next]_vars /\ WF_vars(Progress)

\* @w.do(retries=..., timeout=...) on a plain function.
RegisterWithTimeout ==
    \E name \in TaskNames, params \in ParamSets, retries \in 0..MaxRetries,
       timeout \in {None, Timed} :
        Do(name, params, retries, timeout, None, MaxTimedTasks) /\ UNCHANGED last_do

TimedStep ==
    \/ \E n \in AllNames : TimedOut(n)
    \/ OrphanFinish

NextTimed ==
    \/ AEnter
    \/ RegisterWithTimeout
    \/ LeaveScope
    \/ WaitFirstReturns
    \/ WaitRestReturns
    \/ GatherReturns
    \/ ShutdownReturns
    \/ TaskStep
    \/ TimedStep

TimeoutSpec == Init /\ [][NextTimed]_vars

\* @w.do(iterable) and @w.do("source") on a plain function, next to @w.do.
MapSources == {None, Literal} \cup TaskNames

RegisterMapped ==
    \E name \in TaskNames, params \in ParamSets, map_source \in MapSources :
        Do(name, params, 0, None, map_source, MaxMapTasks) /\ UNCHANGED last_do

NextMapped ==
    \/ AEnter
    \/ RegisterMapped
    \/ LeaveScope
    \/ WaitFirstReturns
    \/ WaitRestReturns
    \/ GatherReturns
    \/ ShutdownReturns
    \/ TaskStep

MapSpec == Init /\ [][NextMapped]_vars

(***************************************************************************)
(* src/wove.py: the module-level `weave` object, the decorator `do`, and   *)
(* the streaming __aexit__ (lines 67-134), cut at its await.  While one    *)
(* __aexit__ is running no other block takes a step.                       *)
(***************************************************************************)
contextVars == <<pc, _max_workers, initial_values, result_exception, last_do, _executor, executor_context, inner_executor,
                 _tasks, _results, writes, _definition_order, execution_plan, seed_value,
                 tier_index, raised, outcome, shutdowns, is_coro, args, submitted_to, orphans,
                 fut, body, attempt, last_exception, exc, work_queue, invoked, fail_order>>

StreamKeys == TaskKeys(weave_tasks)
StreamParams(n) == TaskOf(weave_tasks, n).params
StreamParamSets == {P \in SUBSET StreamParamNames : Cardinality(P) <= MaxParams}

\* WoveResult.__getitem__, __iter__ and final (src/wove.py lines 21-35,
\* src/wove/result.py lines 28-60).
GetItem(r, key) == r._results[key]
Iter(r) == [i \in DOMAIN r._definition_order |-> r._results[r._definition_order[i]]]
Final(r) ==
    IF r._definition_order = <<>> THEN None
    ELSE r._results[r._definition_order[Len(r._definition_order)]]

\* `async with weave() as result:` up to the body: __call__ (lines 57-60)
\* clears the tasks of the one shared object, __aenter__ (lines 62-65) makes a
\* WoveResult from the keys registered so far and points the object at it.
SEnter(s) ==
    LET cleared == <<>>
    IN  /\ scope[s] = "idle"
        /\ running_scope = 0
        /\ weave_tasks' = cleared
        /\ containers' = [containers EXCEPT ![s] =
                             [_results |-> NoResults,
                              _definition_order |-> [i \in DOMAIN cleared |-> cleared[i].name]]]
        /\ weave_result_container' = s
        /\ as_result' = [as_result EXCEPT ![s] = s]
        /\ scope' = [scope EXCEPT ![s] = "open"]
        /\ UNCHANGED <<scope_outcome, stream_raised, running_scope, in_degree, running_tasks,
                       final_results, registered_in, executed_by>>
        /\ UNCHANGED <<contextVars, mergeVars, waitVars>>

\* @do on a function in the body of block s (lines 137-140 and 147-157).
SDo(s, name, params) ==
    /\ scope[s] = "open"
    /\ running_scope = 0
    /\ weave_tasks' = SetItem(weave_tasks, [name |-> name, params |-> params])
    /\ registered_in' = registered_in \cup {<<s, name>>}
    /\ UNCHANGED <<weave_result_container, containers, scope, as_result, scope_outcome,
                   stream_raised, running_scope, in_degree, running_tasks, final_results,
                   executed_by>>
    /\ UNCHANGED <<contextVars, mergeVars, waitVars>>

\* Lines 132-134: the results are copied, in the order of weave._tasks, into
\* the WoveResult the object points to; final_results[name] raises KeyError
\* for a task that never ran.
Transfer(s, results) ==
    LET names == [i \in DOMAIN weave_tasks |-> weave_tasks[i].name]
        missing == {i \in DOMAIN names : results[names[i]] = Absent}
        stop == IF missing = {} THEN Len(names) + 1
                ELSE CHOOSE i \in missing : \A j \in missing : i <= j
    IN  /\ containers' = [containers EXCEPT ![weave_result_container]._results =
                             [n \in StreamParamNames |->
                                 IF \E i \in 1..(stop - 1) : names[i] = n THEN results[n]
                                 ELSE @[n]]]
        /\ scope' = [scope EXCEPT ![s] = "closed"]
        /\ scope_outcome' = [scope_outcome EXCEPT ![s] =
                                IF missing = {} THEN "Success" ELSE "KeyError"]
        /\ stream_raised' = [stream_raised EXCEPT ![s] =
                                IF missing = {} THEN NoExc
                                ELSE Exc("KeyError", names[stop], 0)]
        /\ running_scope' = 0

\* A faulty loop without the `if not running_tasks: break` of lines 104-105 and
\* whose condition is that some task has not run: with nothing running and a
\* task that is not ready it goes on waiting.
StreamLoopWaiting(s, deg, run, results, ready) ==
    LET launched == [n \in StreamNames |-> IF n \in ready THEN "pending" ELSE run[n]]
    IN  /\ in_degree' = deg
        /\ running_tasks' = launched
        /\ final_results' = results
        /\ executed_by' = executed_by \cup {<<s, n>> : n \in ready}
        /\ IF \A n \in StreamKeys : results[n] # Absent
           THEN Transfer(s, results)
           ELSE /\ running_scope' = s
                /\ UNCHANGED <<containers, scope, scope_outcome, stream_raised>>

\* The while loop of line 88 from its top to the await of line 108: every name
\* of the queue is launched (a name enters the queue only when each of its
\* parameters is a task that has completed, so args is always built), and the
\* loop ends when nothing is running.
StreamLoop(s, deg, run, results, ready) ==
    LET launched == [n \in StreamNames |-> IF n \in ready THEN "pending" ELSE run[n]]
    IN  /\ in_degree' = deg
        /\ running_tasks' = launched
        /\ final_results' = results
        /\ executed_by' = executed_by \cup {<<s, n>> : n \in ready}
        /\ IF \A n \in StreamNames : launched[n] = "none"
           THEN Transfer(s, results)
           ELSE /\ running_scope' = s
                /\ UNCHANGED <<containers, scope, scope_outcome, stream_raised>>

\* __aexit__ (lines 67-108) up to its first await.
SExit(s, exc_type) ==
    /\ scope[s] = "open"
    /\ running_scope = 0
    /\ UNCHANGED <<weave_tasks, weave_result_container, as_result, registered_in>>
    /\ UNCHANGED <<contextVars, mergeVars, waitVars>>
    /\ IF exc_type
       THEN /\ scope' = [scope EXCEPT ![s] = "closed"]
            /\ scope_outcome' = [scope_outcome EXCEPT ![s] = "BodyException"]
            /\ UNCHANGED <<containers, stream_raised, running_scope, in_degree, running_tasks,
                           final_results, executed_by>>
       ELSE LET deg == [n \in StreamNames |->
                          IF n \in StreamKeys THEN Cardinality(StreamParams(n)) ELSE 0]
                ready == {n \in StreamKeys : deg[n] = 0}
            IN  StreamLoop(s, deg, [n \in StreamNames |-> "none"], NoResults, ready)

\* The body of a launched task returns or raises.
SBodyFinish(n, ok) ==
    /\ running_scope # 0
    /\ running_tasks[n] = "pending"
    /\ running_tasks' = [running_tasks EXCEPT ![n] = IF ok THEN "ok" ELSE "failed"]
    /\ UNCHANGED <<weave_tasks, weave_result_container, containers, scope, as_result,
                   scope_outcome, stream_raised, running_scope, in_degree, final_results,
                   registered_in, executed_by>>
    /\ UNCHANGED <<contextVars, mergeVars, waitVars>>

\* asyncio.wait(..., FIRST_COMPLETED) returns (line 108) and lines 111-130
\* run: a failed task cancels the pending ones and its exception leaves
\* __aexit__; otherwise the results are recorded, the dependents whose
\* in_degree reaches 0 are queued, and the loop goes round.
SWaitReturns ==
    LET s == running_scope
        done == {n \in StreamNames : running_tasks[n] \in {"ok", "failed"}}
        failed == {n \in done : running_tasks[n] = "failed"}
    IN  /\ s # 0
        /\ done # {}
        /\ UNCHANGED <<weave_tasks, weave_result_container, as_result, registered_in>>
        /\ UNCHANGED <<contextVars, mergeVars, waitVars>>
        /\ IF failed # {}
           THEN /\ \E f \in failed :
                      stream_raised' = [stream_raised EXCEPT ![s] = Exc("body", f, 0)]
                /\ running_tasks' = [n \in StreamNames |->
                                        IF running_tasks[n] = "pending" THEN "cancelled"
                                        ELSE running_tasks[n]]
                /\ scope' = [scope EXCEPT ![s] = "closed"]
                /\ scope_outcome' = [scope_outcome EXCEPT ![s] = "TaskError"]
                /\ running_scope' = 0
                /\ UNCHANGED <<containers, in_degree, final_results, executed_by>>
           ELSE LET results == [n \in StreamParamNames |->
                                   IF n \in done THEN ReturnOf(n) ELSE final_results[n]]
                    deg == [d \in StreamNames |->
                               IF d \in StreamKeys
                               THEN in_degree[d] - Cardinality(done \cap StreamParams(d))
                               ELSE in_degree[d]]
                    ready == {d \in StreamKeys : in_degree[d] > 0 /\ deg[d] = 0}
                    run == [n \in StreamNames |->
                               IF n \in done THEN "none" ELSE running_tasks[n]]
                IN  StreamLoop(s, deg, run, results, ready)

StreamInit == InitWith(0) /\ _max_workers = <<>>

NextStream ==
    \/ \E s \in Scopes : SEnter(s)
    \/ \E s \in Scopes, name \in StreamNames, params \in StreamParamSets : SDo(s, name, params)
    \/ \E s \in Scopes, exc_type \in BOOLEAN : SExit(s, exc_type)
    \/ \E n \in StreamNames, ok \in BOOLEAN : SBodyFinish(n, ok)
    \/ SWaitReturns

StreamSpec == StreamInit /\ [][NextStream]_vars

\* Every task body terminates, and the loop runs __aexit__ on when the wait of
\* line 108 can return.
StreamLiveSpec ==
    /\ StreamSpec
    /\ WF_vars(\E n \in StreamNames, ok \in BOOLEAN : SBodyFinish(n, ok))
    /\ WF_vars(SWaitReturns)

(***************************************************************************)
(* merge(callable) and merge(callable, collection), called from a task     *)
(* body or from a coroutine that the single-call form of merge invoked (a  *)
(* plain function cannot await merge).  A collection is a prefix of        *)
(* MergeItemPool; the single-call form has the one invocation without      *)
(* argument.                                                               *)
(***************************************************************************)
Collections == {[i \in 1..k |-> MergeItemPool[i]] : k \in 0..MaxMergeItems}
MergeResult(item) == <<"merged", item>>

\* A merge call in progress: every invocation is launched at once.
Frame(mapped, coro, items) ==
    [mapped |-> mapped, coro |-> coro, items |-> items,
     sub |-> [i \in DOMAIN items |-> "running"],
     calls |-> [i \in DOMAIN items |-> 1],
     done_order |-> <<>>]

Top == frames[Len(frames)]

\* A faulty gather that returns the results in the order they arrived.
GatherAsCompleted(f) ==
    [k \in DOMAIN f.done_order |-> MergeResult(f.items[f.done_order[k]])]

\* The list a mapped merge returns: one entry per element, in the order of
\* the collection.
Gather(f) == [i \in DOMAIN f.items |-> MergeResult(f.items[i])]

\* A faulty merge that looks for the active run only when it is awaited: the
\* call itself starts the invocations.
MergeCheckingLate(mapped, coro, items) ==
    /\ IF frames = <<>> THEN TRUE ELSE ~Top.mapped /\ Top.coro /\ Top.sub[1] = "running"
    /\ IF Len(_call_stack) >= RecursionLimit
       THEN /\ last_merge' = [NoMerge EXCEPT !.mapped = mapped,
                                             !.error = "RecursionLimitError"]
            /\ UNCHANGED <<frames, _call_stack>>
       ELSE /\ frames' = Append(frames, Frame(mapped, coro, items))
            /\ _call_stack' = Append(_call_stack, "merge")
            /\ last_merge' = [NoMerge EXCEPT !.outside = (merge_context = None),
                                             !.mapped = mapped,
                                             !.invoked = (items # <<>>)]
    /\ UNCHANGED merge_context

\* The call merge(...): it fails at once outside a run and beyond the depth
\* bound; otherwise it enters one level of nesting and invokes the callable,
\* once per element.
Merge(mapped, coro, items) ==
    /\ IF frames = <<>> THEN TRUE ELSE ~Top.mapped /\ Top.coro /\ Top.sub[1] = "running"
    /\ IF merge_context = None
       THEN /\ last_merge' = [NoMerge EXCEPT !.outside = TRUE, !.mapped = mapped,
                                             !.error = "ContextError"]
            /\ UNCHANGED <<frames, _call_stack>>
       ELSE IF Len(_call_stack) >= RecursionLimit
       THEN /\ last_merge' = [NoMerge EXCEPT !.mapped = mapped,
                                             !.error = "RecursionLimitError"]
            /\ UNCHANGED <<frames, _call_stack>>
       ELSE /\ frames' = Append(frames, Frame(mapped, coro, items))
            /\ _call_stack' = Append(_call_stack, "merge")
            /\ last_merge' = [NoMerge EXCEPT !.mapped = mapped, !.invoked = (items # <<>>)]
    /\ UNCHANGED merge_context

\* One invocation of the innermost merge returns or raises; the first one
\* that raises cancels the others of its fan-out.
ItemFinish(i, ok) ==
    /\ frames # <<>>
    /\ i \in DOMAIN Top.sub
    /\ Top.sub[i] = "running"
    /\ frames' = [frames EXCEPT ![Len(frames)] =
                    [@ EXCEPT !.sub = [j \in DOMAIN @ |->
                                          IF j = i THEN (IF ok THEN "ok" ELSE "failed")
                                          ELSE IF ~ok /\ @[j] = "running" THEN "cancelled"
                                          ELSE @[j]],
                              !.done_order = Append(@, i)]]
    /\ UNCHANGED <<merge_context, _call_stack, last_merge>>

\* A faulty merge that leaves its level of nesting only when it succeeded.
MergeReturnsLeaking ==
    LET f == Top
        failed == \E i \in DOMAIN f.sub : f.sub[i] = "failed"
    IN  /\ frames # <<>>
        /\ \A i \in DOMAIN f.sub : f.sub[i] # "running"
        /\ frames' = SubSeq(frames, 1, Len(frames) - 1)
        /\ _call_stack' = IF failed THEN _call_stack
                          ELSE SubSeq(_call_stack, 1, Len(_call_stack) - 1)
        /\ last_merge' = [NoMerge EXCEPT !.mapped = f.mapped,
                                         !.error = IF failed THEN "TaskFailure" ELSE None,
                                         !.invoked = (f.items # <<>>),
                                         !.value = IF failed THEN <<>> ELSE Gather(f),
                                         !.done_order = f.done_order]
        /\ UNCHANGED merge_context

\* The innermost merge is over: it leaves its level of nesting whether it
\* failed or not, and hands back the gathered results or the failure.
MergeReturns ==
    LET f == Top
        failed == \E i \in DOMAIN f.sub : f.sub[i] = "failed"
    IN  /\ frames # <<>>
        /\ \A i \in DOMAIN f.sub : f.sub[i] # "running"
        /\ frames' = SubSeq(frames, 1, Len(frames) - 1)
        /\ _call_stack' = SubSeq(_call_stack, 1, Len(_call_stack) - 1)
        /\ last_merge' = [NoMerge EXCEPT !.mapped = f.mapped,
                                         !.error = IF failed THEN "TaskFailure" ELSE None,
                                         !.invoked = (f.items # <<>>),
                                         !.value = IF failed THEN <<>> ELSE Gather(f),
                                         !.done_order = f.done_order]
        /\ UNCHANGED merge_context

\* A task body of a run starts, and ends.
TaskBegins ==
    /\ merge_context = None
    /\ frames = <<>>
    /\ merge_context' = "run"
    /\ UNCHANGED <<_call_stack, frames, last_merge>>

TaskEnds ==
    /\ merge_context = "run"
    /\ frames = <<>>
    /\ merge_context' = None
    /\ UNCHANGED <<_call_stack, frames, last_merge>>

MergeCall ==
    \/ \E coro \in BOOLEAN : Merge(FALSE, coro, <<NoArgument>>)
    \/ \E coro \in BOOLEAN, items \in Collections : Merge(TRUE, coro, items)

NextMerge ==
    /\ \/ TaskBegins
       \/ TaskEnds
       \/ MergeCall
       \/ \E i \in 1..MaxMergeItems, ok \in BOOLEAN : ItemFinish(i, ok)
       \/ MergeReturns
    /\ UNCHANGED <<contextVars, streamVars, waitVars>>

MergeSpec == StreamInit /\ [][NextMerge]_vars

(***************************************************************************)
(* result.py: WoveResult._set_result, _mark_complete and _wait_for_key     *)
(* (lines 62-75) on one event loop.  A coroutine runs from one await to    *)
(* the next without interruption: loop_running names the consumer that is  *)
(* between two awaits, and nothing else steps until it suspends or         *)
(* returns.  asyncio.Event keeps one future per suspended wait(); set()    *)
(* resolves every pending one, and a resolved wait() returns when the loop *)
(* resumes its coroutine, whatever the flag is by then.                    *)
(***************************************************************************)
WaitKeys == {NamePool[i] : i \in 1..MaxWaitKeys} \cap AllNames

\* Everything of the scope but the result store.
storeFrame == <<pc, _max_workers, initial_values, result_exception, last_do, _executor, executor_context,
                inner_executor, _tasks, _definition_order, execution_plan, seed_value,
                tier_index, raised, outcome, shutdowns, is_coro, args, submitted_to, orphans,
                fut, body, attempt, last_exception, exc, work_queue, invoked, fail_order>>

\* _set_result(key, value) (lines 62-65).
SetResult(key) ==
    /\ loop_running = 0
    /\ _results' = [_results EXCEPT ![key] = ReturnOf(key)]
    /\ writes' = [writes EXCEPT ![key] = 1]
    /\ UNCHANGED <<storeFrame, streamVars, mergeVars, waitVars>>

\* An event whose set() resolves the future of one waiter only.
EventSetWakingOne(state) ==
    LET pending == {c \in _waiters : state[c] = "suspended"}
    IN  [c \in Consumers |->
            IF pending # {} /\ c = CHOOSE p \in pending : \A q \in pending : p <= q
            THEN "woken" ELSE state[c]]

\* Event.set(): the flag goes up and every pending future of a waiter is
\* resolved; the waiters stay listed until their wait() resumes.
EventSet(state) ==
    [c \in Consumers |-> IF c \in _waiters /\ state[c] = "suspended" THEN "woken" ELSE state[c]]

\* _mark_complete() (lines 67-69).
MarkComplete ==
    /\ loop_running = 0
    /\ _is_complete' = TRUE
    /\ consumer' = EventSet(consumer)
    /\ announced' = ResultKeys(_results) \cap WaitKeys
    /\ UNCHANGED <<_waiters, wait_key, loop_running>>
    /\ UNCHANGED <<contextVars, streamVars, mergeVars>>

\* A consumer calls _wait_for_key(key) and the loop starts its coroutine.
WaitForKey(c, key) ==
    /\ loop_running = 0
    /\ consumer[c] \in {"idle", "returned"}
    /\ consumer' = [consumer EXCEPT ![c] = "line 73"]
    /\ wait_key' = [wait_key EXCEPT ![c] = key]
    /\ loop_running' = c
    /\ UNCHANGED <<_is_complete, _waiters, announced>>
    /\ UNCHANGED <<contextVars, streamVars, mergeVars>>

\* Line 73: `while key not in self._results`; the coroutine returns when the
\* key is there.
LoopTest(c) ==
    /\ loop_running = c
    /\ consumer[c] = "line 73"
    /\ IF wait_key[c] \in ResultKeys(_results)
       THEN /\ consumer' = [consumer EXCEPT ![c] = "returned"]
            /\ loop_running' = 0
       ELSE /\ consumer' = [consumer EXCEPT ![c] = "line 74"]
            /\ UNCHANGED loop_running
    /\ UNCHANGED <<_is_complete, _waiters, wait_key, announced>>
    /\ UNCHANGED <<contextVars, streamVars, mergeVars>>

\* Line 74: `await self._is_complete.wait()`.  With the flag up wait()
\* returns at once and the coroutine runs on; otherwise it joins the waiters
\* and suspends.
EventWait(c) ==
    /\ loop_running = c
    /\ consumer[c] = "line 74"
    /\ IF _is_complete
       THEN /\ consumer' = [consumer EXCEPT ![c] = "line 75"]
            /\ UNCHANGED <<_waiters, loop_running>>
       ELSE /\ consumer' = [consumer EXCEPT ![c] = "suspended"]
            /\ _waiters' = _waiters \cup {c}
            /\ loop_running' = 0
    /\ UNCHANGED <<_is_complete, wait_key, announced>>
    /\ UNCHANGED <<contextVars, streamVars, mergeVars>>

\* The loop resumes a consumer whose future set() resolved: wait() leaves the
\* waiters and returns.
Resume(c) ==
    /\ loop_running = 0
    /\ consumer[c] = "woken"
    /\ consumer' = [consumer EXCEPT ![c] = "line 75"]
    /\ _waiters' = _waiters \ {c}
    /\ loop_running' = c
    /\ UNCHANGED <<_is_complete, wait_key, announced>>
    /\ UNCHANGED <<contextVars, streamVars, mergeVars>>

\* Line 75 of a _wait_for_key that waits once (`if` for `while`): the consumer
\* returns after its first wake-up.
EventClearThenReturn(c) ==
    /\ loop_running = c
    /\ consumer[c] = "line 75"
    /\ _is_complete' = FALSE
    /\ consumer' = [consumer EXCEPT ![c] = "returned"]
    /\ loop_running' = 0
    /\ UNCHANGED <<_waiters, wait_key, announced>>
    /\ UNCHANGED <<contextVars, streamVars, mergeVars>>

\* Line 75: `self._is_complete.clear()`, then back to the loop test.
EventClear(c) ==
    /\ loop_running = c
    /\ consumer[c] = "line 75"
    /\ _is_complete' = FALSE
    /\ consumer' = [consumer EXCEPT ![c] = "line 73"]
    /\ UNCHANGED <<_waiters, wait_key, loop_running, announced>>
    /\ UNCHANGED <<contextVars, streamVars, mergeVars>>

ConsumerStep(c) ==
    \/ LoopTest(c)
    \/ EventWait(c)
    \/ Resume(c)
    \/ EventClear(c)

NextWait ==
    \/ \E key \in WaitKeys : SetResult(key)
    \/ MarkComplete
    \/ \E c \in Consumers, key \in WaitKeys : WaitForKey(c, key)
    \/ \E c \in Consumers : ConsumerStep(c)

WaitSpec == StreamInit /\ [][NextWait]_vars

\* The loop's ready queue is first in, first out: a coroutine that is ready
\* again and again, between the steps of others, is run.
WaitLiveSpec == WaitSpec /\ \A c \in Consumers : SF_vars(ConsumerStep(c))

(***************************************************************************)
(* Vocabulary of the properties.                                           *)
(***************************************************************************)
Built == execution_plan # NoPlan
Tiers == execution_plan.tiers
Closed(how) == pc = "closed" /\ outcome = how
\* __aexit__ ran (the scope body did not raise) and has returned or raised.
EndRunOver == pc = "closed" /\ outcome # "BodyException"
Registered == TaskKeys(_tasks)
\* The dependency sets of the registered tasks, as the first loop computes them.
GraphOf == Dependencies(_tasks, _results, _definition_order)
\* A dependency graph has a cycle iff some non-empty set of tasks has, for each
\* member, a dependency inside the set.
HasCycle(deps) ==
    \E S \in SUBSET DOMAIN deps :
        S # {} /\ \A n \in S : deps[n] \cap S # {}
\* A formal parameter that is neither a seed nor a registered task.
Unresolved(n) == TaskOf(_tasks, n).params \ Registered

(***************************************************************************)
(* C1: a task's body is first invoked only after the result of each of its *)
(* dependencies has been recorded in the Result Store.  Every step that    *)
(* enters a body leaves all dependencies of that task in the store.        *)
(***************************************************************************)
C1_DependenciesRecordedBeforeInvocation ==
    [][\A n \in AllNames :
          invoked'[n] > invoked[n] =>
              \A d \in execution_plan'.dependencies[n] : d \in ResultKeys(_results')]_vars

\* A body that has a task (not a seed) among its dependencies was entered.
C1_Witness ==
    \E n \in Registered :
        /\ Built
        /\ invoked[n] > 0
        /\ execution_plan.dependencies[n] \cap TaskNames # {}

(***************************************************************************)
(* C2: tiers run strictly in order.  A task of a later tier has been       *)
(* launched only if every task of every earlier tier completed             *)
(* successfully; so once a task has failed, the tasks of later tiers stay  *)
(* unlaunched for good.                                                    *)
(***************************************************************************)
C2_TiersInOrder ==
    Built =>
        \A i, j \in DOMAIN Tiers :
            i < j =>
                \A n \in Range(Tiers[j]) :
                    fut[n] # "none" => \A m \in Range(Tiers[i]) : fut[m] = "ok"

\* The run is over, a task of the second tier failed after the first tier
\* succeeded, and a dependent in the third tier was never launched.
C2_Witness ==
    /\ Closed("TaskError")
    /\ Len(Tiers) >= 3
    /\ \E n \in Range(Tiers[2]) : fut[n] = "failed"
    /\ \A n \in Range(Tiers[3]) : fut[n] = "none"

(***************************************************************************)
(* C3: when a task fails, every other task still in flight is immediately  *)
(* requested to cancel.  As soon as a failed task and a pending task       *)
(* coexist, the step of __aexit__ that requests the cancellation of the    *)
(* pending task is enabled: nothing else has to happen first.              *)
(***************************************************************************)
C3_FailureCancelsInFlight ==
    \A x, y \in TaskNames :
        (fut[x] = "failed" /\ fut[y] = "pending") =>
            ENABLED ((WaitFirstReturns \/ WaitRestReturns) /\ fut'[y] = "cancelling")

(***************************************************************************)
(* C4: if several tasks fail, the exception that propagates is the one of  *)
(* the task that failed first, whatever the registration order.  A wait    *)
(* for the first completion that returns several failed tasks at once has  *)
(* observed them together and may pick any; every other raise must pick    *)
(* the earliest failure.                                                   *)
(***************************************************************************)
SeveralFailuresReturnedAtOnce ==
    /\ pc = "wait_first"
    /\ Cardinality({n \in Range(Tiers[tier_index]) : fut[n] = "failed"}) > 1

C4_FirstFailurePropagates ==
    [][(pc # "drain" /\ pc' = "drain" /\ ~SeveralFailuresReturnedAtOnce) =>
          raised' = exc[Head(fail_order)]]_vars

(***************************************************************************)
(* C5: the error that leaves end-run after a task failure is the exception *)
(* object raised by the last attempt of a failed task (on the worker       *)
(* thread for a blocking task), never a cancellation and never a wrapper.  *)
(***************************************************************************)
C5_OriginalExceptionPropagates ==
    Closed("TaskError") =>
        /\ raised.kind \in {"body", "call"}
        /\ raised.task \in Registered
        /\ fut[raised.task] = "failed"
        /\ raised.attempt = attempt[raised.task]
        /\ raised.kind = "body" => raised.attempt = Retries(raised.task)

\* A blocking task failed on its second attempt and that exception left end-run.
C5_Witness ==
    /\ Closed("TaskError")
    /\ raised.kind = "body"
    /\ raised.attempt = 1
    /\ ~is_coro[raised.task]

(***************************************************************************)
(* C6: when a task failure propagates out of end-run, every task the run   *)
(* launched has finished or acknowledged its cancellation, and no body is  *)
(* left running or queued on the pool.                                     *)
(***************************************************************************)
C6_DrainedBeforePropagation ==
    Closed("TaskError") =>
        \A n \in AllNames : fut[n] \notin InFlight /\ body[n] = "idle"

\* A blocking task whose body had been entered was cancelled by the failure
\* of another task.
C6_Witness ==
    /\ Closed("TaskError")
    /\ \E n \in TaskNames : fut[n] = "cancelled" /\ ~is_coro[n] /\ invoked[n] > 0

(***************************************************************************)
(* C7: the worker pool acquired at begin-run has been shut down exactly    *)
(* once when the scope has been left, in every terminal state.             *)
(***************************************************************************)
C7_PoolShutDownOnce ==
    pc = "closed" => shutdowns = 1 /\ _executor = "shutdown"

(***************************************************************************)
(* C8: if the dependency graph has a cycle (a task naming itself           *)
(* included), end-run fails with the cycle error and no task body is       *)
(* invoked.  The dependency graph is what the first loop of                *)
(* _build_graph_and_plan leaves when it completes.                         *)
(***************************************************************************)
C8_CycleFailsBeforeAnyTask ==
    (/\ pc \notin {"idle", "open"}
     /\ outcome # "BodyException"
     /\ FirstLoopError(_tasks, _results, _definition_order) = None
     /\ HasCycle(GraphOf)) =>
        /\ Closed("GraphError")
        /\ raised = Exc("RuntimeError", None, 0)
        /\ \A n \in AllNames : invoked[n] = 0 /\ fut[n] = "none"

\* End-run raised the cycle error for a task set in which a task names itself.
C8_Witness ==
    /\ Closed("GraphError")
    /\ raised.kind = "RuntimeError"
    /\ \E n \in Registered : n \in TaskOf(_tasks, n).params

(***************************************************************************)
(* C9: if a task declares an input name that is neither a seed nor a       *)
(* registered task, end-run raises a dependency error naming that          *)
(* parameter before any task body is invoked.                              *)
(***************************************************************************)
C9_UnresolvedParameterRejected ==
    (EndRunOver /\ \E n \in Registered : Unresolved(n) # {}) =>
        /\ outcome = "GraphError"
        /\ raised.kind = "DependencyError"
        /\ \A n \in AllNames : invoked[n] = 0

(***************************************************************************)
(* C10: the computed tiers partition the task set, and every dependency of *)
(* a task in tier i lies in a tier of smaller index or is a seed.          *)
(***************************************************************************)
C10_TiersPartitionAndRespectDependencies ==
    Built =>
        /\ \A n \in Registered :
              Cardinality({<<i, k>> \in (DOMAIN Tiers) \X (1..Cardinality(Registered)) :
                              k \in DOMAIN Tiers[i] /\ Tiers[i][k] = n}) = 1
        /\ \A i \in DOMAIN Tiers : Range(Tiers[i]) \subseteq Registered
        /\ \A i \in DOMAIN Tiers : \A n \in Range(Tiers[i]) :
              \A d \in execution_plan.dependencies[n] :
                  \/ \E j \in 1..(i - 1) : d \in Range(Tiers[j])
                  \/ TaskOf(_tasks, d).seed

\* A plan of at least two tiers, one of which holds two tasks.
C10_Witness ==
    /\ Built
    /\ Len(Tiers) >= 2
    /\ \E i \in DOMAIN Tiers : Len(Tiers[i]) >= 2
    /\ \E n \in Registered : Cardinality(execution_plan.dependencies[n]) = 2

(***************************************************************************)
(* C11: end-run either returns normally with a Result Store entry for      *)
(* every registered task, or raises a single error; it never returns       *)
(* normally while a registered task has no entry.                          *)
(***************************************************************************)
C11_FullStoreOrError ==
    EndRunOver =>
        \/ /\ outcome = "Success"
           /\ raised = NoExc
           /\ \A n \in Registered : n \in ResultKeys(_results)
        \/ /\ outcome \in {"GraphError", "TaskError"}
           /\ raised # NoExc

\* End-run returned normally after a run of two tiers with three tasks.
C11_Witness ==
    /\ Closed("Success")
    /\ Cardinality(Registered \cap TaskNames) = 3
    /\ Len(Tiers) >= 2
    /\ \A n \in Registered : invoked[n] > 0 \/ IsSeedTask(n)

(***************************************************************************)
(* C12: every key of the Result Store is written exactly once.  Once a     *)
(* name has an entry, no step of the run assigns that key again or changes *)
(* its value.                                                              *)
(***************************************************************************)
C12_KeysWrittenOnce ==
    [][\A n \in AllNames :
          _results[n] # Absent =>
              /\ writes'[n] = writes[n]
              /\ _results'[n] = _results[n]]_vars

(***************************************************************************)
(* C13: a seed is an already-completed task without dependencies.  Every   *)
(* task whose body was entered received, for each parameter named after a  *)
(* seed, the value supplied for that seed; and when end-run has returned   *)
(* normally the store maps every seed name to the value supplied for it.   *)
(***************************************************************************)
C13_SeedsKeepTheirValues ==
    /\ \A n \in Registered :
          (Built /\ invoked[n] > 0) =>
              \A p \in DOMAIN args[n] :
                  p \in DOMAIN initial_values => args[n][p] = SeedValue(initial_values[p])
    /\ Closed("Success") =>
          \A p \in DOMAIN initial_values : _results[p] = SeedValue(initial_values[p])

(***************************************************************************)
(* C14: every blocking task of a run is handed to the pool that run owns,  *)
(* never to the pool of another run, and no blocking body is left to start *)
(* once the run's pool has been shut down; also when another scope is      *)
(* opened and closed inside the scope.                                     *)
(***************************************************************************)
C14_BlockingTasksUseOwnPool ==
    \A n \in AllNames :
        /\ submitted_to[n] \in {"none", "own"}
        /\ (~is_coro[n] /\ body[n] = "queued") => _executor = "active"

(***************************************************************************)
(* C15: when every body terminates and the pool has at least one worker,   *)
(* end-run always reaches a terminal state: once the scope is being left,  *)
(* it is eventually closed, whatever the mix of coroutine and blocking     *)
(* tasks.                                                                  *)
(***************************************************************************)
C15_EndRunTerminates ==
    (pc \notin {"idle", "open"}) ~> (pc = "closed")

\* A run on a pool of one worker with two blocking tasks and a coroutine
\* function in its tiers returned normally.
C15_Witness ==
    /\ Closed("Success")
    /\ _max_workers = <<1>>
    /\ Cardinality({n \in Registered \cap TaskNames : ~is_coro[n] /\ invoked[n] > 0}) >= 2
    /\ \E n \in Registered : is_coro[n] /\ invoked[n] > 0

(***************************************************************************)
(* C16: a task with retry count N whose call binds its arguments is        *)
(* invoked at most N+1 times, each time with the arguments it was created  *)
(* with.  No attempt follows a success, and the task fails only after N+1  *)
(* failed attempts, with the exception of the last one.                    *)
(***************************************************************************)
C16_AtMostNPlusOneAttempts ==
    /\ [](\A n \in Registered :
            (Built /\ CallBinds(execution_plan, n)) =>
                /\ invoked[n] <= Retries(n) + 1
                /\ fut[n] = "ok" => invoked[n] = attempt[n] + 1
                /\ fut[n] = "failed" =>
                      /\ invoked[n] = Retries(n) + 1
                      /\ exc[n] = Exc("body", n, Retries(n)))
    /\ [][\A n \in AllNames :
            /\ fut[n] = "ok" => invoked'[n] = invoked[n]
            /\ (invoked[n] > 0 /\ invoked'[n] > invoked[n]) => args'[n] = args[n]]_vars

\* A task registered with one retry failed its first attempt and succeeded
\* with its second.
C16_Witness ==
    \E n \in Registered \cap TaskNames :
        /\ Built
        /\ Retries(n) = 1
        /\ fut[n] = "ok"
        /\ attempt[n] = 1
        /\ invoked[n] = 2

(***************************************************************************)
(* C17: a timeout of an attempt is a failed attempt like any other.  The   *)
(* step in which an attempt times out starts the next attempt while        *)
(* attempts remain and otherwise fails the task with the timeout error; a  *)
(* task failed by a timeout ends the run as a task failure, and the step   *)
(* of end-run that handles the failure requests the cancellation of every  *)
(* task still pending.                                                     *)
(***************************************************************************)
C17_TimeoutIsAFailedAttempt ==
    /\ [][\A n \in AllNames :
            (last_exception'[n] # last_exception[n] /\ last_exception'[n].kind = "timeout") =>
                IF attempt[n] < Retries(n)
                THEN attempt'[n] = attempt[n] + 1 /\ fut'[n] = "pending"
                ELSE fut'[n] = "failed" /\ exc'[n] = Exc("timeout", n, Retries(n))]_vars
    /\ [][(pc # "drain" /\ pc' = "drain") =>
            \A m \in AllNames : fut[m] = "pending" => fut'[m] = "cancelling"]_vars
    /\ [](\A n \in AllNames :
            (fut[n] = "failed" /\ exc[n].kind = "timeout") =>
                /\ pc \in {"wait_first", "wait_rest", "drain", "shutdown_wait", "closed"}
                /\ pc \in {"shutdown_wait", "closed"} =>
                      /\ outcome = "TaskError"
                      /\ \A m \in AllNames : fut[m] \notin InFlight)

\* A task timed out on both of its attempts, the timeout error left end-run,
\* and a sibling was cancelled.
C17_Witness ==
    /\ Closed("TaskError")
    /\ raised.kind = "timeout"
    /\ raised.attempt = 1
    /\ \E m \in TaskNames : fut[m] = "cancelled"

\* The concrete collection that Literal stands for, and the Result Store entry
\* a task mapped over it must produce: the result for each element, in order.
LiteralItems == <<"x1", "x2">>
MappedEntry(m) == [i \in DOMAIN LiteralItems |-> <<"result of", m, LiteralItems[i]>>]
Mapped(m) == TaskOf(_tasks, m).map_source # None

(***************************************************************************)
(* C18: a task mapped over a collection of n elements is invoked once per  *)
(* element and produces one Result Store entry, the list of the n results  *)
(* in the order of the elements.  So in a run whose graph was built, a     *)
(* task mapped over a concrete collection fails only if one of its         *)
(* invocations raised, and when it succeeded it was invoked n times and    *)
(* its entry, once written, is that list.                                  *)
(***************************************************************************)
C18_MappedTaskFansOut ==
    \A m \in Registered :
        (Built /\ TaskOf(_tasks, m).map_source = Literal) =>
            /\ fut[m] = "failed" => exc[m].kind = "body"
            /\ fut[m] = "ok" => invoked[m] = Len(LiteralItems)
            /\ _results[m] # Absent => _results[m] = MappedEntry(m)

TierIndexOf(n) == CHOOSE i \in DOMAIN Tiers : n \in Range(Tiers[i])
\* The Result Store entry of a task mapped over the recorded result of `source`.
MappedOver(m, source) == <<"results of", m, "for each item of", _results[source]>>

(***************************************************************************)
(* C19: a mapped task whose map source names another task depends on that  *)
(* task.  It is placed in a strictly later tier, it is launched only after *)
(* the result of the source has been recorded, and it is mapped over that  *)
(* result: it fails only if one of its invocations raised, and its entry,  *)
(* once written, holds the results for the items of the source's result.   *)
(***************************************************************************)
C19_MappedOverSourceTask ==
    \A m \in Registered :
        (Built /\ TaskOf(_tasks, m).map_source \in Registered) =>
            LET source == TaskOf(_tasks, m).map_source
            IN  /\ TierIndexOf(source) < TierIndexOf(m)
                /\ fut[m] # "none" => _results[source] # Absent
                /\ invoked[m] > 0 => _results[source] # Absent
                /\ fut[m] = "failed" => exc[m].kind = "body"
                /\ _results[m] # Absent => _results[m] = MappedOver(m, source)

\* The part of C19 that the graph builder and the tier loop decide: the later
\* tier, and the launch after the source's result is recorded.
C19_SourceRunsFirst ==
    \A m \in Registered :
        (Built /\ TaskOf(_tasks, m).map_source \in Registered) =>
            LET source == TaskOf(_tasks, m).map_source
            IN  /\ TierIndexOf(source) < TierIndexOf(m)
                /\ fut[m] # "none" => _results[source] # Absent

\* A mapped task that graph construction must reject.
BadMapped(m) ==
    /\ Mapped(m)
    /\ \/ Cardinality(TaskOf(_tasks, m).params \ Registered) # 1
       \/ TaskOf(_tasks, m).map_source \in TaskNames \ Registered

(***************************************************************************)
(* C20: if a mapped task does not have exactly one parameter that is not a *)
(* task or seed name, or its map source names a task that does not exist,  *)
(* graph construction fails and no task body of the run is invoked.        *)
(***************************************************************************)
C20_BadMappedTaskRejected ==
    (/\ pc \notin {"idle", "open"}
     /\ outcome # "BodyException"
     /\ \E m \in Registered : BadMapped(m)) =>
        /\ Closed("GraphError")
        /\ raised.kind \in {"NameError", "TypeError"}
        /\ \A n \in AllNames : invoked[n] = 0 /\ fut[n] = "none"

\* End-run raised the TypeError of the builder for a mapped task with two
\* parameters that name nothing, registered after a plain task.
C20_Witness ==
    /\ Closed("GraphError")
    /\ raised.kind = "TypeError"
    /\ Cardinality(Registered \cap TaskNames) = 2
    /\ \E m \in Registered :
          Mapped(m) /\ Cardinality(TaskOf(_tasks, m).params \ Registered) = 2

(***************************************************************************)
(* C21: when the scope is left because its body raised, end-run builds no  *)
(* plan, invokes no task body, writes nothing to the Result Store (it      *)
(* holds the seeds as __init__ stored them and nothing else) and raises    *)
(* nothing of its own, so the body's exception goes on unchanged.          *)
(***************************************************************************)
C21_BodyExceptionSkipsExecution ==
    Closed("BodyException") =>
        /\ execution_plan = NoPlan
        /\ raised = NoExc
        /\ \A n \in AllNames :
              /\ invoked[n] = 0
              /\ fut[n] = "none"
              /\ writes[n] = (IF n \in DOMAIN initial_values THEN 1 ELSE 0)
              /\ _results[n] = (IF n \in DOMAIN initial_values
                                THEN SeedValue(initial_values[n]) ELSE Absent)

\* The body registered two tasks, one of them depending on the seed, and then
\* raised.
C21_Witness ==
    /\ Closed("BodyException")
    /\ Cardinality(Registered \cap TaskNames) = 2
    /\ \E n \in Registered \cap TaskNames, s \in DOMAIN initial_values :
          s \in TaskOf(_tasks, n).params

\* Threads of the run's pool that are inside a task body.
BlockingBodiesRunning ==
    Cardinality({n \in AllNames : ~is_coro[n] /\ body[n] = "running"}) + orphans

(***************************************************************************)
(* C22: at no moment do more than max_workers blocking task bodies of the  *)
(* run execute at the same time (with max_workers=1 two blocking tasks of  *)
(* one tier never overlap), and after a successful run every registered    *)
(* task has stored its own result.                                         *)
(***************************************************************************)
C22_AtMostMaxWorkersBodies ==
    /\ _max_workers # <<>> => BlockingBodiesRunning <= _max_workers[1]
    /\ Closed("Success") =>
          \A n \in Registered \cap TaskNames : _results[n] = ReturnOf(n)

\* Two blocking tasks of the same tier with max_workers=1: one is in its body
\* while the other waits in the pool's queue.
C22_Witness ==
    /\ _max_workers = <<1>>
    /\ \E n, m \in Registered \cap TaskNames :
          /\ n # m
          /\ ~is_coro[n] /\ ~is_coro[m]
          /\ Built
          /\ TierIndexOf(n) = TierIndexOf(m)
          /\ body[n] = "running"
          /\ body[m] = "queued"

\* Both of them finished, one after the other, and the run succeeded.
C22_BothStored ==
    /\ _max_workers = <<1>>
    /\ Closed("Success")
    /\ \E n, m \in Registered \cap TaskNames :
          /\ n # m
          /\ ~is_coro[n] /\ ~is_coro[m]
          /\ TierIndexOf(n) = TierIndexOf(m)

(***************************************************************************)
(* C23: every member of a tier is launched before the executor first       *)
(* suspends to wait for any of them: the step that moves to a tier gives   *)
(* every member its asyncio task, so while end-run waits on a tier none of *)
(* its members is still unlaunched; and after a successful run each task   *)
(* has stored its own result, whatever order the members completed in.     *)
(***************************************************************************)
C23_TierLaunchedTogether ==
    /\ [](pc \in {"wait_first", "wait_rest"} =>
            \A n \in Range(Tiers[tier_index]) : fut[n] # "none")
    /\ [](Closed("Success") =>
            \A n \in Registered \cap TaskNames :
                fut[n] = "ok" /\ _results[n] = ReturnOf(n))
    /\ [][tier_index' # tier_index =>
            \A n \in Range(execution_plan'.tiers[tier_index']) :
                fut[n] = "none" /\ fut'[n] # "none"]_vars

\* Two independent coroutine tasks of one tier are in their bodies at the same
\* time while end-run waits for the first completion.
C23_Witness ==
    /\ pc = "wait_first"
    /\ \E n, m \in Range(Tiers[tier_index]) :
          /\ n # m
          /\ is_coro[n] /\ is_coro[m]
          /\ body[n] = "running" /\ body[m] = "running"
          /\ fut[n] = "pending" /\ fut[m] = "pending"

\* The member registered last completed first, and the run still succeeds.
C23_LastCompletesFirst ==
    /\ pc = "wait_first"
    /\ Len(Tiers[tier_index]) = 2
    /\ fut[Tiers[tier_index][1]] = "pending"
    /\ fut[Tiers[tier_index][2]] = "ok"

\* The names of weave._tasks in registration order.
StreamOrder == [i \in DOMAIN weave_tasks |-> weave_tasks[i].name]

(***************************************************************************)
(* C24: after a successful run (of a block that was the only one entered), *)
(* the WoveResult that __aenter__ gave to the block returns each task's    *)
(* result by name, iterates the results in the order the tasks were        *)
(* registered, and its final value is the result of the task registered    *)
(* last.                                                                   *)
(***************************************************************************)
C24_ResultHandleAccess ==
    \A s \in Scopes :
        (/\ scope_outcome[s] = "Success"
         /\ \A t \in Scopes \ {s} : scope[t] = "idle") =>
            LET result == containers[as_result[s]]
            IN  /\ \A n \in StreamKeys : GetItem(result, n) = ReturnOf(n)
                /\ Iter(result) = [i \in DOMAIN StreamOrder |-> ReturnOf(StreamOrder[i])]
                /\ Final(result) = (IF StreamOrder = <<>> THEN None
                                    ELSE ReturnOf(StreamOrder[Len(StreamOrder)]))

\* The same three ways of access on w.result of src/wove/context.py, whose
\* do() appends to result._definition_order itself (lines 344-345).
ContextResultAccess ==
    Closed("Success") =>
        LET result == [_results |-> _results, _definition_order |-> _definition_order]
        IN  /\ \A n \in Registered \cap TaskNames : GetItem(result, n) = ReturnOf(n)
            /\ Iter(result) = [i \in DOMAIN _definition_order |-> ReturnOf(_definition_order[i])]
            /\ Range(_definition_order) = Registered \cap TaskNames
            /\ Final(result) = (IF _definition_order = <<>> THEN None
                                ELSE ReturnOf(_definition_order[Len(_definition_order)]))

(***************************************************************************)
(* C25: after a run has failed with a task exception, the Result Store     *)
(* holds that exception for inspection, and it is the very exception that  *)
(* was raised out of the scope.                                            *)
(***************************************************************************)
C25_StoreHoldsRaisedException ==
    Closed("TaskError") => result_exception # NoExc /\ result_exception = raised

(***************************************************************************)
(* C26: with two blocks open at the same time, a task registered in the    *)
(* body of one block stays registered until that block is left (opening or *)
(* closing the other block does not remove it), is executed by that        *)
(* block's run only, and its result is stored in the WoveResult of that    *)
(* block and in no other.                                                  *)
(***************************************************************************)
C26_ScopesIsolated ==
    /\ \A s \in Scopes, n \in StreamNames :
          (<<s, n>> \in registered_in /\ scope[s] = "open") => n \in StreamKeys
    /\ executed_by \subseteq registered_in
    /\ \A s \in Scopes, n \in StreamNames :
          (as_result[s] # 0 /\ containers[as_result[s]]._results[n] # Absent) =>
              <<s, n>> \in registered_in
    /\ \A s \in Scopes, n \in StreamNames :
          (<<s, n>> \in registered_in /\ scope_outcome[s] = "Success") =>
              containers[as_result[s]]._results[n] = ReturnOf(n)

\* The separate failures of the claim, each reachable on its own.
RegistrationRemovedByOtherBlock ==
    \E s \in Scopes, n \in StreamNames :
        <<s, n>> \in registered_in /\ scope[s] = "open" /\ n \notin StreamKeys

ResultStoredInOtherHandle ==
    \E s, t \in Scopes, n \in StreamNames :
        /\ s # t
        /\ as_result[s] # 0 /\ as_result[t] # 0
        /\ <<s, n>> \in registered_in /\ <<t, n>> \notin registered_in
        /\ <<s, n>> \in executed_by
        /\ scope_outcome[s] = "Success"
        /\ containers[as_result[t]]._results[n] = ReturnOf(n)
        /\ containers[as_result[s]]._results[n] = Absent

(***************************************************************************)
(* C27: a merge call made while no run is active fails with the context    *)
(* error at the call itself: the step that makes the call sets the error,  *)
(* starts no invocation of the callable and enters no level of nesting.    *)
(***************************************************************************)
C27_MergeOutsideRunFails ==
    /\ [](last_merge.outside => last_merge.error = "ContextError" /\ ~last_merge.invoked)
    /\ [](merge_context = None => frames = <<>> /\ _call_stack = <<>>)
    /\ [][merge_context = None /\ last_merge' # last_merge =>
            /\ last_merge'.error = "ContextError"
            /\ frames' = frames]_vars

\* After a run's task has ended, merge is called and refused.
C27_Witness ==
    /\ merge_context = None
    /\ last_merge.outside
    /\ last_merge.error = "ContextError"
    /\ ~last_merge.invoked

(***************************************************************************)
(* C28: the mapped form of merge invokes the callable once per element of  *)
(* the collection, all of them in flight together, for a coroutine and for *)
(* a plain function alike; it returns a list aligned with the collection   *)
(* whatever order the invocations completed in; and the first invocation   *)
(* that fails leaves no other invocation of that fan-out running.          *)
(***************************************************************************)
C28_MappedMergeFansOut ==
    /\ [](\A k \in DOMAIN frames :
            /\ \A i \in DOMAIN frames[k].items : frames[k].calls[i] = 1
            /\ (\E i \in DOMAIN frames[k].sub : frames[k].sub[i] = "failed") =>
                   \A j \in DOMAIN frames[k].sub : frames[k].sub[j] # "running")
    /\ [][Len(frames') > Len(frames) =>
            \A i \in DOMAIN frames'[Len(frames')].items :
                frames'[Len(frames')].sub[i] = "running"]_vars
    /\ [][(Len(frames') < Len(frames) /\ Top.mapped) =>
            IF \E i \in DOMAIN Top.sub : Top.sub[i] = "failed"
            THEN last_merge'.error = "TaskFailure"
            ELSE /\ last_merge'.error = None
                 /\ Len(last_merge'.value) = Len(Top.items)
                 /\ \A i \in DOMAIN Top.items :
                       last_merge'.value[i] = MergeResult(Top.items[i])]_vars

\* A mapped merge over two elements returned its list after the second
\* invocation had completed before the first.
C28_Witness ==
    /\ last_merge.mapped
    /\ last_merge.error = None
    /\ last_merge.done_order = <<2, 1>>
    /\ last_merge.value = <<MergeResult(MergeItemPool[1]), MergeResult(MergeItemPool[2])>>

\* The first failure of a fan-out cancelled its sibling.
MergeSiblingCancelled ==
    /\ frames # <<>>
    /\ Top.mapped
    /\ \E i, j \in DOMAIN Top.sub : Top.sub[i] = "failed" /\ Top.sub[j] = "cancelled"

(***************************************************************************)
(* C29: the nesting depth of merge never exceeds the bound of 100; the     *)
(* call that would exceed it fails with the recursion-limit error and      *)
(* invokes nothing; and when a merge call finishes, whether it succeeded   *)
(* or failed, the depth is again what it was before that call.             *)
(***************************************************************************)
C29_MergeDepthBounded ==
    /\ [](/\ Len(_call_stack) <= RecursionLimit
          /\ Len(_call_stack) = Len(frames)
          /\ last_merge.error = "RecursionLimitError" => ~last_merge.invoked)
    /\ [][/\ Len(frames') > Len(frames) => Len(_call_stack) < RecursionLimit
          /\ (Len(_call_stack) >= RecursionLimit /\ merge_context # None
                 /\ last_merge' # last_merge /\ Len(frames') = Len(frames)) =>
                last_merge'.error = "RecursionLimitError"
          /\ Len(frames') < Len(frames) =>
                _call_stack' = SubSeq(_call_stack, 1, Len(_call_stack) - 1)]_vars

\* At the full depth a further merge call was refused.
C29_Witness ==
    /\ Len(_call_stack) = RecursionLimit
    /\ last_merge.error = "RecursionLimitError"
    /\ ~last_merge.invoked

\* A nested merge failed and the depth went back down.
MergeFailedAndUnwound ==
    /\ last_merge.error = "TaskFailure"
    /\ Len(_call_stack) = 1
    /\ Len(frames) = 1

\* The latest tier that holds a dependency of n.
LatestDependencyTier(n) ==
    LET held == {TierIndexOf(d) : d \in execution_plan.dependencies[n]}
    IN  CHOOSE i \in held : \A j \in held : j <= i

(***************************************************************************)
(* C30: every task is placed in the earliest tier possible: the first tier *)
(* if it has no dependencies, and otherwise the tier directly after the    *)
(* latest tier that holds one of its dependencies.                         *)
(***************************************************************************)
C30_TiersAreMaximal ==
    Built =>
        \A n \in Registered :
            TierIndexOf(n) = (IF execution_plan.dependencies[n] = {} THEN 1
                              ELSE LatestDependencyTier(n) + 1)

\* A diamond: one root, two tasks that depend on it alone, and one task that
\* depends on both; the member sets are {root}, {the two}, {the last}.
C30_Witness ==
    /\ Built
    /\ Len(Tiers) = 3
    /\ Len(Tiers[1]) = 1 /\ Len(Tiers[2]) = 2 /\ Len(Tiers[3]) = 1
    /\ \A m \in Range(Tiers[2]) : execution_plan.dependencies[m] = Range(Tiers[1])
    /\ execution_plan.dependencies[Tiers[3][1]] = Range(Tiers[2])

\* Position of a name in the sorted task list.
SortedIndex(n) ==
    CHOOSE i \in DOMAIN execution_plan.sorted_tasks : execution_plan.sorted_tasks[i] = n

(***************************************************************************)
(* C31: cycle detection is exact.  Once the first loop of the builder has  *)
(* passed, end-run raises the cycle error if and only if the dependency    *)
(* graph has a cycle; for an acyclic graph the plan is built and its       *)
(* sorted task list holds every task exactly once, each task after all of  *)
(* its dependencies.                                                       *)
(***************************************************************************)
C31_CycleDetectionExact ==
    (/\ pc \notin {"idle", "open"}
     /\ outcome # "BodyException"
     /\ FirstLoopError(_tasks, _results, _definition_order) = None) =>
        /\ (Closed("GraphError") /\ raised.kind = "RuntimeError") <=> HasCycle(GraphOf)
        /\ ~HasCycle(GraphOf) =>
              /\ Built
              /\ Len(execution_plan.sorted_tasks) = Cardinality(Registered)
              /\ Range(execution_plan.sorted_tasks) = Registered
              /\ \A n \in Registered : \A d \in execution_plan.dependencies[n] :
                    SortedIndex(d) < SortedIndex(n)

\* An acyclic graph of three tasks, one of which depends on the two others,
\* was sorted.
C31_Witness ==
    /\ Built
    /\ Cardinality(Registered \cap TaskNames) = 3
    /\ \E n \in Registered : Cardinality(execution_plan.dependencies[n] \cap TaskNames) = 2

\* A cycle of two tasks next to a task outside it was reported.
CycleOfTwoReported ==
    /\ Closed("GraphError")
    /\ raised.kind = "RuntimeError"
    /\ \E n, m \in Registered :
          /\ n # m
          /\ n \in TaskOf(_tasks, m).params
          /\ m \in TaskOf(_tasks, n).params
    /\ \E k \in Registered \cap TaskNames : TaskOf(_tasks, k).params = {}

\* The asyncio task of n failed, or was cancelled by the except clause.
FailedOrCancelled(n) == fut[n] \in {"failed", "cancelling", "cancelled"}

(***************************************************************************)
(* C32: a task that failed, or that was still pending or running when      *)
(* cancellation was triggered, never gets an entry in the Result Store: it *)
(* has none (a seed keeps the one __init__ gave it), and no later step     *)
(* writes its key.                                                         *)
(***************************************************************************)
C32_FailedOrCancelledNeverStored ==
    /\ [](\A n \in AllNames :
            FailedOrCancelled(n) =>
                /\ writes[n] = (IF n \in DOMAIN initial_values THEN 1 ELSE 0)
                /\ n \notin DOMAIN initial_values => _results[n] = Absent)
    /\ [][\A n \in AllNames :
            FailedOrCancelled(n) =>
                /\ FailedOrCancelled(n)'
                /\ writes'[n] = writes[n]
                /\ _results'[n] = _results[n]]_vars

\* The run is over: one task of the second tier failed, its sibling was
\* cancelled while running, and only the first tier has entries.
C32_Witness ==
    /\ Closed("TaskError")
    /\ \E n, m, k \in Registered \cap TaskNames :
          /\ fut[n] = "failed" /\ fut[m] = "cancelled" /\ fut[k] = "ok"
          /\ _results[n] = Absent /\ _results[m] = Absent
          /\ _results[k] = ReturnOf(k)

(***************************************************************************)
(* C33: registration only records a task descriptor.  While the scope is   *)
(* open no task body has been invoked and no asyncio task exists; every    *)
(* step that invokes a body is taken after the scope has been left, with   *)
(* the plan built.                                                         *)
(***************************************************************************)
C33_NoBodyBeforeEndRun ==
    /\ [](pc \in {"idle", "open"} =>
            \A n \in AllNames : invoked[n] = 0 /\ fut[n] = "none" /\ body[n] = "idle")
    /\ [][\A n \in AllNames :
            invoked'[n] # invoked[n] =>
                /\ pc' \notin {"idle", "open"}
                /\ execution_plan' # NoPlan
                /\ n \in Range(execution_plan'.sorted_tasks)]_vars
    /\ [][(pc = "open" /\ pc' = "open") => invoked' = invoked /\ _results' = _results]_vars

\* Three tasks are registered, one of them with parameters, and the scope is
\* still open: nothing has been invoked.
C33_Witness ==
    /\ pc = "open"
    /\ Cardinality(Registered \cap TaskNames) = 3
    /\ \E n \in Registered : TaskOf(_tasks, n).params # {}
    /\ \A n \in AllNames : invoked[n] = 0

\* The bodies of two registered tasks have been invoked after the scope was
\* left.
BodiesInvokedAfterScope ==
    /\ pc \notin {"idle", "open"}
    /\ Built
    /\ \E n, m \in Registered : n # m /\ invoked[n] = 1 /\ invoked[m] = 1

(***************************************************************************)
(* C34: a consumer waiting for a key returns only when that key is present *)
(* in the result store; being woken by the completion signal of another    *)
(* key never makes it return: it tests the store again and goes back to    *)
(* waiting.                                                                *)
(***************************************************************************)
C34_ReturnsOnlyWithKey ==
    /\ [](\A c \in Consumers : consumer[c] = "returned" => wait_key[c] \in ResultKeys(_results))
    /\ [][\A c \in Consumers :
            (consumer[c] # "returned" /\ consumer'[c] = "returned") =>
                /\ consumer[c] = "line 73"
                /\ wait_key[c] \in ResultKeys(_results)]_vars
    /\ [][\A c \in Consumers :
            (consumer[c] = "line 75" /\ wait_key[c] \notin ResultKeys(_results)) =>
                consumer'[c] \in {"line 75", "line 73"}]_vars
    /\ [][\A c \in Consumers :
            (consumer[c] = "line 73" /\ wait_key[c] \notin ResultKeys(_results)) =>
                consumer'[c] \in {"line 73", "line 74"}]_vars

\* A consumer was woken by the signal of another key: its own key is still
\* missing, another key is stored and announced, and it is about to test the
\* store again.
C34_Witness ==
    \E c \in Consumers :
        /\ consumer[c] = "line 75"
        /\ c \notin _waiters
        /\ wait_key[c] \notin ResultKeys(_results)
        /\ announced # {}

\* A consumer has returned with its key in the store while another still waits.
ConsumerReturnedWithKey ==
    \E c, d \in Consumers :
        /\ consumer[c] = "returned"
        /\ wait_key[c] \in ResultKeys(_results)
        /\ consumer[d] = "suspended"

(***************************************************************************)
(* C38: with any number of consumers waiting for different keys, every     *)
(* consumer eventually returns once its key has been stored and completion *)
(* has been signalled afterwards; a signal consumed and cleared by one     *)
(* waiter never makes another waiter miss its wake-up.                     *)
(***************************************************************************)
Waiting(c) == consumer[c] \notin {"idle", "returned"}

C38_EveryConsumerReturns ==
    \A c \in Consumers :
        (Waiting(c) /\ wait_key[c] \in announced) ~> (consumer[c] = "returned")

\* Two consumers wait for different keys, both keys are stored and announced,
\* one consumer has consumed the signal and cleared the event, and the other
\* has not run since it was woken.
C38_Witness ==
    \E c, d \in Consumers :
        /\ wait_key[c] # wait_key[d]
        /\ {wait_key[c], wait_key[d]} \subseteq announced
        /\ consumer[c] = "returned"
        /\ consumer[d] = "woken"
        /\ ~_is_complete

FailingTierPartlyStored ==
    /\ Closed("TaskError")
    /\ \E n \in Range(Tiers[tier_index]) \ DOMAIN initial_values :
          n \in ResultKeys(_results) /\ fut[n] = "ok"
    /\ \E n \in Range(Tiers[tier_index]) : fut[n] = "failed"

(***************************************************************************)
(* C37: cancellation ends a task's retry loop.  Once the asyncio task of a *)
(* name has been cancelled, the loop of _retry_timeout_wrapper starts no   *)
(* further attempt of it, whatever its remaining retry count: the attempt  *)
(* number stays, the function is not submitted or called again, and the    *)
(* task stays cancelled.                                                   *)
(***************************************************************************)
Queued(q, n) == Cardinality({i \in DOMAIN q : q[i] = n})

C37_CancellationEndsRetries ==
    [][\A n \in AllNames :
          fut[n] \in {"cancelling", "cancelled"} =>
              /\ attempt'[n] = attempt[n]
              /\ Queued(work_queue', n) <= Queued(work_queue, n)
              /\ is_coro[n] => invoked'[n] = invoked[n]
              /\ fut'[n] \in {"cancelling", "cancelled"}
              /\ fut[n] = "cancelled" => fut'[n] = "cancelled" /\ invoked'[n] = invoked[n]]_vars

\* A task was cancelled during an attempt that was not its last.
C37_Witness ==
    \E n \in Registered :
        /\ fut[n] = "cancelled"
        /\ attempt[n] < Retries(n)
        /\ pc = "closed"

(***************************************************************************)
(* C36: if the coroutine executing end-run is cancelled from outside while *)
(* it waits on a tier, every task the run has launched is cancelled and    *)
(* drained before end-run finishes: no task of the run is still in flight  *)
(* after the scope has been left.                                          *)
(***************************************************************************)
C36_CancelledRunDrainsTasks ==
    Closed("Cancelled") =>
        \A n \in AllNames :
            /\ fut[n] \notin InFlight
            /\ is_coro[n] => body[n] # "running"

\* End-run was cancelled and has finished while a coroutine task it launched is
\* still running, never cancelled.
TaskOutlivesCancelledRun ==
    /\ Closed("Cancelled")
    /\ \E n \in Registered : is_coro[n] /\ fut[n] = "pending" /\ body[n] = "running"

(***************************************************************************)
(* C39: in the streaming executor end-run always terminates when all task  *)
(* bodies terminate.  If some task can never become ready (a parameter of  *)
(* it names no registered task, or it lies on a dependency cycle), the run *)
(* does not wait forever: it ends with an error once the tasks that could  *)
(* run have finished.                                                      *)
(***************************************************************************)
\* The tasks that never become ready: the largest set of registered tasks each
\* of which has a parameter that is no registered task or is in the set, and
\* so also the tasks that depend on such a task.
NeverReady(ts) ==
    LET keys == TaskKeys(ts)
        stuck == {U \in SUBSET keys :
                    \A n \in U : \E p \in TaskOf(ts, n).params : p \notin keys \/ p \in U}
    IN  UNION stuck

C39_StreamRunTerminates ==
    /\ \A s \in Scopes : (running_scope = s) ~> (scope[s] = "closed")
    /\ [][\A s \in Scopes :
            (/\ scope[s] = "open"
             /\ scope'[s] = "closed"
             /\ scope_outcome'[s] # "BodyException"
             /\ NeverReady(weave_tasks) # {})
            => scope_outcome'[s] \in {"KeyError", "TaskError"}]_vars

\* A run with a task that could run and one that could never become ready has
\* ended with the KeyError of the transfer, after the first task ran.
C39_Witness ==
    \E s \in Scopes :
        /\ scope[s] = "closed"
        /\ scope_outcome[s] = "KeyError"
        /\ NeverReady(weave_tasks) # {}
        /\ \E n \in StreamKeys \ NeverReady(weave_tasks) :
              <<s, n>> \in executed_by /\ final_results[n] # Absent

(***************************************************************************)
(* C40: after any sequence of task registrations in one scope, every task  *)
(* name occurs at most once in the definition order and every name in the  *)
(* definition order is a registered task; registering a name a second time *)
(* replaces the task's callable and keeps the name at its original         *)
(* position.                                                               *)
(***************************************************************************)
C40_DefinitionOrderIsASet ==
    /\ [](/\ \A i, j \in DOMAIN _definition_order :
                i # j => _definition_order[i] # _definition_order[j]
          /\ Range(_definition_order) \subseteq TaskKeys(_tasks)
          /\ \A i, j \in DOMAIN _tasks : i # j => _tasks[i].name # _tasks[j].name)
    /\ [](last_do # NoDo => TaskOf(_tasks, last_do.name).params = last_do.params)
    /\ [][/\ \A i \in DOMAIN _definition_order :
                i \in DOMAIN _definition_order' /\ _definition_order'[i] = _definition_order[i]
          /\ \A i \in DOMAIN _tasks :
                i \in DOMAIN _tasks' /\ _tasks'[i].name = _tasks[i].name
          /\ (last_do' # last_do /\ last_do'.again) =>
                /\ Len(_definition_order') = Len(_definition_order)
                /\ Len(_tasks') = Len(_tasks)]_vars

\* Three tasks are registered and the first of them has just been registered
\* again, with another function: it is still first in the definition order.
C40_Witness ==
    /\ pc = "open"
    /\ Len(_definition_order) = 3
    /\ last_do.again
    /\ last_do.name = _definition_order[1]
    /\ last_do.params # {}
    /\ TaskOf(_tasks, last_do.name).params = last_do.params

====
